---- MODULE Spec2Model ----
(***************************************************************************)
(* A model of colibri: the orchestrator (Colibri.Do / Colibri.Extract),    *)
(* the extraction engine of package parsers (findSelectors, findSelector,  *)
(* findAllSelector, followSelector), the Rules/Selector data model and the *)
(* robots.txt collaborator of package webextractor.                        *)
(*                                                                         *)
(* Go calls are modelled big-step: every function is an operator that      *)
(* takes the collaborators' state st and returns a record                  *)
(*   [st, val, err, pan]                                                   *)
(* with the state after the call, the returned value, the returned error   *)
(* and pan, the value of a panic that is unwinding through the caller      *)
(* ("" when the call returned normally).                                   *)
(***************************************************************************)
EXTENDS Naturals, Sequences, FiniteSets, TLC

(***************************************************************************)
(* Bounds of the model.                                                    *)
(***************************************************************************)
\* Longest sibling list handed to the engine.
MaxSiblings == 2

(***************************************************************************)
(* Go values of type any, as the engine returns them.                      *)
(***************************************************************************)
Nil == [kind |-> "nil"]
Str(s) == [kind |-> "str", v |-> s]
\* A JSON number; v is its %v rendering.
Num(s) == [kind |-> "num", v |-> s]
\* []any; a nil slice and an empty slice are both items = << >>.
List(items) == [kind |-> "list", items |-> items]
\* map[string]any; m is a function from the keys to the values.
Map(m) == [kind |-> "map", m |-> m]
EmptyMap == Map(<<>>)

Range(s) == {s[i] : i \in DOMAIN s}

(***************************************************************************)
(* Errors.  A plain error is its message; Errs is the ordered aggregate.   *)
(***************************************************************************)
NilErr == [kind |-> "nil"]
Error(msg) == [kind |-> "error", msg |-> msg]
EmptyErrs == [kind |-> "errs", keys |-> <<>>, vals |-> <<>>]

ErrClientIsNil == Error("Client is nil")
ErrParserIsNil == Error("Parser is nil")
ErrRulesIsNil == Error("Rules is nil")
ErrMustBeString == Error("must be a string")
ErrNotMatch == Error("Content-Type does not match")
ErrExprType == Error("ExprType not compatible with Element")
ErrorRobotstxtRestriction == Error("Page not accessible due to robots.txt restriction")
\* What the expression engines (xpath, cascadia, regexp) and url.Parse report.
ErrCompile == Error("invalid expression")
ErrURLParse == Error("missing protocol scheme")
ErrNotFound == Error("Not Found")

\* The key an addition under key gets: the bare key the first time, then
\* key#1, key#2, ... in addition order.
RECURSIVE SuffixedKey(_, _, _)
SuffixedKey(keys, key, j) ==
    LET k == key \o "#" \o ToString(j)
    IN  IF k \in Range(keys) THEN SuffixedKey(keys, key, j + 1) ELSE k

\* The key is used as it is given.
FreshKeyBare(keys, key) == key

FreshKey(keys, key) ==
    IF key \in Range(keys) THEN SuffixedKey(keys, key, 1) ELSE key

\* Everything is added.
ErrsAddAny(errs, key, err) ==
    [errs EXCEPT !.keys = Append(@, FreshKey(errs.keys, key)),
                 !.vals = Append(@, err)]

\* Errs.Add: a nil error or an empty key adds nothing.
ErrsAdd(errs, key, err) ==
    IF err = NilErr \/ key = ""
    THEN errs
    ELSE [errs EXCEPT !.keys = Append(@, FreshKey(errs.keys, key)),
                      !.vals = Append(@, err)]

\* A plain error is replaced by the aggregate.
AddErrorDropPlain(errs, key, err) ==
    IF err = NilErr \/ key = "" THEN errs
    ELSE IF errs = NilErr THEN ErrsAdd(EmptyErrs, key, err)
    ELSE IF errs.kind = "errs" THEN ErrsAdd(errs, key, err)
    ELSE ErrsAdd(EmptyErrs, key, err)

\* AddError(errs, key, err): nil stays nil when nothing is added; a plain
\* error is kept under "#".
AddError(errs, key, err) ==
    IF err = NilErr \/ key = "" THEN errs
    ELSE IF errs = NilErr THEN ErrsAdd(EmptyErrs, key, err)
    ELSE IF errs.kind = "errs" THEN ErrsAdd(errs, key, err)
    ELSE ErrsAdd(ErrsAdd(EmptyErrs, "#", errs), key, err)

ErrKeys(errs) == IF errs.kind = "errs" THEN Range(errs.keys) ELSE {}
ErrCount(errs) == IF errs.kind = "errs" THEN Len(errs.keys) ELSE 0
ErrGet(errs, key) ==
    IF key \in ErrKeys(errs)
    THEN errs.vals[CHOOSE i \in DOMAIN errs.keys : errs.keys[i] = key]
    ELSE NilErr

(***************************************************************************)
(* URLs.  A *url.URL is [scheme, host, path]; NilURL is the nil pointer.   *)
(* A reference has an empty scheme.                                        *)
(***************************************************************************)
NilURL == [kind |-> "nil"]
URL(scheme, host, path) == [scheme |-> scheme, host |-> host, path |-> path]

IsAbs(u) == u.scheme # ""

\* url.URL.String.
URLString(u) ==
    IF u.scheme = "" THEN u.path ELSE u.scheme \o "://" \o u.host \o u.path

\* url.Parse on the texts the pages of the model hold.  Parsing lowers the
\* scheme, so String(Parse(s)) is not always s.
URLParse(s) ==
    CASE s = "" -> [err |-> NilErr, url |-> URL("", "", "")]
      [] s = "/a" -> [err |-> NilErr, url |-> URL("", "", "/a")]
      [] s = "/b" -> [err |-> NilErr, url |-> URL("", "", "/b")]
      [] s = "/missing" -> [err |-> NilErr, url |-> URL("", "", "/missing")]
      [] s = "/k" -> [err |-> NilErr, url |-> URL("", "", "/k")]
      [] s = "https://h.test/p" -> [err |-> NilErr, url |-> URL("https", "h.test", "/p")]
      [] s = "https://x.test/p" -> [err |-> NilErr, url |-> URL("https", "x.test", "/p")]
      [] s = "https://j.test/p" -> [err |-> NilErr, url |-> URL("https", "j.test", "/p")]
      [] s = "https://t.test/p" -> [err |-> NilErr, url |-> URL("https", "t.test", "/p")]
      [] s = "HTTPS://x.test/b" -> [err |-> NilErr, url |-> URL("https", "x.test", "/b")]
      [] s = "https://h.test/x/../p" ->
            [err |-> NilErr, url |-> URL("https", "h.test", "/x/../p")]
      [] s = "p" -> [err |-> NilErr, url |-> URL("", "", "p")]
      [] OTHER -> [err |-> ErrURLParse, url |-> NilURL]

\* ToURL: only a string converts.
ToURL(value) ==
    IF value.kind = "str" THEN URLParse(value.v)
    ELSE [err |-> ErrMustBeString, url |-> NilURL]

\* resolvePath of net/url, for the paths of the model: the reference is
\* empty or an absolute path, and the dot segments of the result are
\* removed; a non-empty result starts with "/".
resolvePath(base, ref) ==
    LET full == IF ref = "" THEN base ELSE ref
    IN  CASE full = "/x/../p" -> "/p"
          [] full = "p" -> "/p"
          [] OTHER -> full

\* url.URL.ResolveReference, for the references of the model: absolute
\* URLs, absolute-path references and the empty reference.
ResolveReference(base, ref) ==
    IF ref.scheme # "" THEN [ref EXCEPT !.path = resolvePath(ref.path, "")]
    ELSE IF ref.host # ""
    THEN [ref EXCEPT !.scheme = base.scheme, !.path = resolvePath(ref.path, "")]
    ELSE [base EXCEPT !.path = resolvePath(base.path, ref.path)]

\* fmt.Sprintf("%v", value).
Sprint(value) == IF value.kind \in {"str", "num"} THEN value.v ELSE "<nil>"

(***************************************************************************)
(* Rules and Selector.                                                     *)
(***************************************************************************)
NilHeader == [kind |-> "nil"]
\* http.Header; m maps the header names it holds to their first value.
Header(m) == [kind |-> "header", m |-> m]

\* http.Header.Get: "" for a missing name and for a nil header.
HeaderGet(h, name) ==
    IF h.kind = "header" /\ name \in DOMAIN h.m THEN h.m[name] ELSE ""

\* http.Header.Set.
HeaderSet(h, name, value) == Header((name :> value) @@ h.m)

\* http.Header.Clone: nil stays nil.
HeaderClone(h) == IF h.kind = "nil" THEN NilHeader ELSE Header(h.m)

DefaultUserAgent == "colibri/0.1"

\* strings.TrimSpace on the User-Agent values of the model.
TrimSpace(s) == IF s = "   " THEN "" ELSE s

\* Values a field bag (Fields map[string]any) holds.
Bool(b) == [kind |-> "bool", v |-> b]
Dur(d) == [kind |-> "dur", v |-> d]
URLValue(u) == [kind |-> "url", v |-> u]
HeaderValue(h) == [kind |-> "hdr", v |-> h]

NilRules == [kind |-> "nil"]

Selector(name, expr, type, all, follow, selectors, fields) ==
    [Name |-> name, Expr |-> expr, Type |-> type, All |-> all,
     Follow |-> follow, Selectors |-> selectors, Fields |-> fields]

\* url.URL.ResolveReference(&url.URL{}): an independent copy.
CopyURL(u) == IF u = NilURL THEN NilURL ELSE ResolveReference(u, URL("", "", ""))

RECURSIVE CloneSelectors(_)
\* Selector.Clone.
SelectorClone(selector) ==
    [Name |-> selector.Name, Expr |-> selector.Expr, Type |-> selector.Type,
     All |-> selector.All, Follow |-> selector.Follow,
     Selectors |-> CloneSelectors(selector.Selectors),
     Fields |-> [k \in DOMAIN selector.Fields |-> selector.Fields[k]]]

CloneSelectors(selectors) ==
    [i \in 1..Len(selectors) |-> SelectorClone(selectors[i])]

\* Rules.Clone.
RulesClone(rules) ==
    [Method |-> rules.Method,
     URL |-> CopyURL(rules.URL),
     Proxy |-> CopyURL(rules.Proxy),
     Header |-> HeaderClone(rules.Header),
     Timeout |-> rules.Timeout,
     UseCookies |-> rules.UseCookies,
     IgnoreRobotsTxt |-> rules.IgnoreRobotsTxt,
     Delay |-> rules.Delay,
     Selectors |-> CloneSelectors(rules.Selectors),
     Fields |-> [k \in DOMAIN rules.Fields |-> rules.Fields[k]]]

\* v.(T) with the result discarded on failure: the zero value of T.
AssertOr(fields, key, kind, zero) ==
    IF fields[key].kind = kind THEN fields[key].v ELSE zero

\* Selector.Rules(src).
\* The derived Rules keep the selector list of the Rules they derive from.
SelectorRulesSameList(selector, src) == [src EXCEPT !.Method = "", !.URL = NilURL]

SelectorRules(selector, src) ==
    LET f == selector.Fields
        base == [Method |-> "", URL |-> NilURL, Proxy |-> NilURL,
                 Header |-> NilHeader,
                 Timeout |-> src.Timeout,
                 UseCookies |-> src.UseCookies,
                 IgnoreRobotsTxt |-> src.IgnoreRobotsTxt,
                 Delay |-> src.Delay,
                 Selectors |-> CloneSelectors(selector.Selectors),
                 Fields |-> <<>>]
    IN  IF DOMAIN f = {}
        THEN [base EXCEPT !.Proxy = CopyURL(src.Proxy),
                          !.Header = HeaderClone(src.Header)]
        ELSE [base EXCEPT
                !.Method = IF "Method" \in DOMAIN f
                           THEN AssertOr(f, "Method", "str", "") ELSE "",
                !.Proxy = IF "Proxy" \in DOMAIN f
                          THEN AssertOr(f, "Proxy", "url", NilURL)
                          ELSE CopyURL(src.Proxy),
                !.Header = IF "Header" \in DOMAIN f
                           THEN AssertOr(f, "Header", "hdr", NilHeader)
                           ELSE HeaderClone(src.Header),
                !.Timeout = IF "Timeout" \in DOMAIN f
                            THEN AssertOr(f, "Timeout", "dur", 0) ELSE src.Timeout,
                !.UseCookies = IF "UseCookies" \in DOMAIN f
                               THEN AssertOr(f, "UseCookies", "bool", FALSE)
                               ELSE src.UseCookies,
                !.IgnoreRobotsTxt = IF "IgnoreRobotsTxt" \in DOMAIN f
                                    THEN AssertOr(f, "IgnoreRobotsTxt", "bool", FALSE)
                                    ELSE src.IgnoreRobotsTxt,
                !.Delay = IF "Delay" \in DOMAIN f
                          THEN AssertOr(f, "Delay", "dur", 0) ELSE src.Delay]

(***************************************************************************)
(* The pages the transport serves and the elements the decoders build from *)
(* their bodies.  Every host serves the same document in its own format;   *)
(* /missing is not found, /k has a content type no decoder matches,        *)
(* https://h.test/r redirects to https://x.test/p, and /e is answered with *)
(* a response and an error at once.                                        *)
(***************************************************************************)
NilResp == [kind |-> "nil"]
Response(u, contentType) == [kind |-> "resp", url |-> u, contentType |-> contentType]

ContentTypeOf(host) ==
    CASE host = "h.test" -> "text/html"
      [] host = "x.test" -> "application/xml"
      [] host = "j.test" -> "application/json"
      [] host = "t.test" -> "text/plain"
      [] OTHER -> "apk"

\* What the network answers to a request for u.
Fetch(u) ==
    IF u.path = "/missing" \/ (u.host = "x.test" /\ u.path = "/robots.txt")
    THEN [err |-> ErrNotFound, resp |-> NilResp]
    ELSE IF u.path = "/e"
    THEN [err |-> ErrNotFound, resp |-> Response(u, ContentTypeOf(u.host))]
    ELSE IF u.host = "h.test" /\ u.path = "/r"
    THEN [err |-> NilErr,
          resp |-> Response(URL("https", "x.test", "/p"), ContentTypeOf("x.test"))]
    ELSE IF u.path = "/k"
    THEN [err |-> NilErr, resp |-> Response(u, "apk")]
    ELSE IF u.path = "/robots.txt"
    THEN [err |-> NilErr, resp |-> Response(u, "text/plain")]
    ELSE [err |-> NilErr, resp |-> Response(u, ContentTypeOf(u.host))]

\* The paths the robots.txt of a host disallows for every agent.
RobotsDisallow(host) == IF host = "h.test" THEN {"/b"} ELSE {}

NilElement == [kind |-> "nil"]
\* A decoded node: its format, the page it belongs to and its place there.
Element(format, page, node) == [format |-> format, page |-> page, node |-> node]

\* The nodes expr selects below node, in document order.
Kids(node, expr) ==
    CASE node = "root" /\ expr = "links" -> <<"l1", "l2">>
      [] node = "root" /\ expr = "mixed" -> <<"m1", "m2", "m3">>
      [] node = "root" /\ expr = "badurl" -> <<"u1", "u2">>
      [] node = "root" /\ expr = "items" -> <<"i1", "i2">>
      [] node = "root" /\ expr = "title" -> <<"t1">>
      [] node = "root" /\ expr = "apps" -> <<"k1">>
      [] node = "i1" /\ expr = "link" -> <<"l1">>
      [] node = "i2" /\ expr = "link" -> <<"m2">>
      [] node \in {"i1", "i2"} /\ expr = "title" -> <<"t1">>
      [] OTHER -> <<>>

\* Element.Value: the text of an HTML, XML or text node, the value of a
\* JSON node.  The title of a page is its URL; u1 is no URL (a number in
\* JSON, an unparsable text elsewhere).
ElementValue(e) ==
    CASE e.node = "l1" -> Str("/a")
      [] e.node = "l2" -> Str("/b")
      [] e.node = "m1" -> Str("/a")
      [] e.node = "m2" -> Str("/missing")
      [] e.node = "m3" -> Str("HTTPS://x.test/b")
      [] e.node = "u1" -> IF e.format = "json" THEN Num("2011") ELSE Str(":bad")
      [] e.node = "u2" -> Str("/a")
      [] e.node = "k1" -> Str("/k")
      [] e.node = "i1" -> Str("item 1")
      [] e.node = "i2" -> Str("item 2")
      [] e.node = "t1" -> Str(e.page)
      [] e.node = "empty" -> Str("")
      [] OTHER -> Str("doc")

\* strings.EqualFold(exprType, name), for the type tags of the model.
EqualFold(exprType, name) ==
    exprType = name \/ (exprType = "XPATH" /\ name = "xpath")

\* The expression language a format compiles expr in, "" when the type
\* tag is not one the format supports.
ExprLanguage(format, exprType) ==
    CASE format = "html" ->
            IF exprType = "" \/ EqualFold(exprType, "xpath") THEN "xpath"
            ELSE IF EqualFold(exprType, "css") THEN "css" ELSE ""
      [] format \in {"xml", "json"} ->
            IF exprType = "" \/ EqualFold(exprType, "xpath") THEN "xpath" ELSE ""
      [] OTHER ->
            IF exprType = "" \/ EqualFold(exprType, "regular") THEN "regular" ELSE ""

\* The one expression no engine compiles.
Compiles(expr) == expr # "bad"

\* Element.Find.  HTML, XML and JSON return no element when nothing
\* matches; TextElement.Find returns an element over the empty match.
Find(parent, expr, exprType) ==
    LET kids == Kids(parent.node, expr)
    IN  IF ExprLanguage(parent.format, exprType) = ""
        THEN [err |-> ErrExprType, child |-> NilElement]
        ELSE IF ~Compiles(expr)
        THEN [err |-> ErrCompile, child |-> NilElement]
        ELSE IF kids # <<>>
        THEN [err |-> NilErr, child |-> Element(parent.format, parent.page, kids[1])]
        ELSE IF parent.format = "text"
        THEN [err |-> NilErr, child |-> Element("text", parent.page, "empty")]
        ELSE [err |-> NilErr, child |-> NilElement]

\* Element.FindAll.
FindAll(parent, expr, exprType) ==
    LET kids == Kids(parent.node, expr)
    IN  IF ExprLanguage(parent.format, exprType) = ""
        THEN [err |-> ErrExprType, children |-> <<>>]
        ELSE IF ~Compiles(expr)
        THEN [err |-> ErrCompile, children |-> <<>>]
        ELSE [err |-> NilErr,
              children |-> [i \in 1..Len(kids) |->
                               Element(parent.format, parent.page, kids[i])]]

(***************************************************************************)
(* The collaborators' state and the record of their invocations.           *)
(*   trace   the collaborator and element calls made so far, in order      *)
(*   depth   how many Colibri.Extract calls are on the stack               *)
(*   gate    how many RobotsTxt.IsAllowed calls are on the stack           *)
(*   robots  RobotsData.data: host -> the paths its robots.txt disallows   *)
(*   funcs   Parsers.funcs: pattern -> the format of its decoder           *)
(*   agents  the User-Agent of the rules each RobotsTxt.IsAllowed and      *)
(*           HTTPClient.Do was handed, in order                            *)
(***************************************************************************)
Event(op, arg, depth, gate) == [op |-> op, arg |-> arg, depth |-> depth, gate |-> gate]

Log(st, op, arg) == [st EXCEPT !.trace = Append(@, Event(op, arg, st.depth, st.gate))]

\* The patterns of the decoders New registers.
HTMLRegexp == "^text\\/html"
JSONRegexp == "^application\\/(json|x-json|([a-z]+\\+json))"
TextRegexp == "^text\\/plain"
XMLRegexp == "(?i)((application|image|message|model)/((\\w|\\.|-)+\\+?)?|text/)(wb)?xml"

\* regexp.MustCompile(expr).MatchString(contentType), for the patterns and
\* the content types of the catalogues.
MatchString(expr, contentType) ==
    CASE expr = HTMLRegexp -> contentType \in {"text/html", "text/html; charset=utf-8"}
      [] expr = JSONRegexp -> contentType = "application/json"
      [] expr = TextRegexp -> contentType = "text/plain"
      [] expr = XMLRegexp -> contentType = "application/xml"
      [] expr = ".*" -> TRUE
      [] OTHER -> FALSE

\* Parsers.funcs of New(): pattern -> the format of its decoder.
ParsersNew ==
    (HTMLRegexp :> "html") @@ (JSONRegexp :> "json") @@ (TextRegexp :> "text")
        @@ (XMLRegexp :> "xml")

\* The patterns of funcs that match contentType.
Matching(funcs, contentType) ==
    {expr \in DOMAIN funcs : MatchString(expr, contentType)}

\* A collaborator is handed rules.
Saw(st, rules) ==
    [st EXCEPT !.agents = Append(@, HeaderGet(rules.Header, "User-Agent"))]

\* A new call starts with nothing observed.
Quiet(st) == [st EXCEPT !.trace = <<>>, !.agents = <<>>]

NewState ==
    [trace |-> <<>>, depth |-> 0, gate |-> 0, robots |-> <<>>, funcs |-> ParsersNew,
     agents |-> <<>>]

\* The value a faulty collaborator panics with.
PanicValue == "boom"

\* A collaborator method of c that panics whenever it is called.
Faulty(c, method) == method \in c.faults

URLArg(u) == IF u = NilURL THEN "" ELSE URLString(u)

(***************************************************************************)
(* Delay: Wait, Stamp and Done of the configured collaborator.             *)
(***************************************************************************)
DelayWait(c, u, st) ==
    [st |-> Log(st, "Wait", URLArg(u)),
     pan |-> IF Faulty(c, "Wait") THEN PanicValue ELSE ""]

DelayStamp(c, u, st) ==
    [st |-> Log(st, "Stamp", URLArg(u)),
     pan |-> IF Faulty(c, "Stamp") THEN PanicValue ELSE ""]

DelayDone(c, u, st) ==
    [st |-> Log(st, "Done", URLArg(u)),
     pan |-> IF Faulty(c, "Done") THEN PanicValue ELSE ""]

(***************************************************************************)
(* HTTPClient.Do: the transport.                                           *)
(***************************************************************************)
ClientDo(c, rules, st) ==
    LET st1 == Saw(Log(st, "ClientDo", URLArg(rules.URL)), rules)
        f == Fetch(rules.URL)
    IN  IF Faulty(c, "ClientDo")
        THEN [st |-> st1, resp |-> NilResp, err |-> NilErr, pan |-> PanicValue]
        ELSE [st |-> st1, resp |-> f.resp, err |-> f.err, pan |-> ""]

RECURSIVE Do(_, _, _)
RECURSIVE Extract(_, _, _)
RECURSIVE findSelectors(_, _, _, _, _, _)
RECURSIVE findSelector(_, _, _, _, _, _)

(***************************************************************************)
(* RobotsTxt.IsAllowed.                                                    *)
(***************************************************************************)
\* robotstxt.RobotsData.TestAgent, for a policy that names no agent.
TestAgent(disallow, path, agent) == path \notin disallow

robotsTxtPath == "/robots.txt"

\* The verdict of a cached policy on the URL and User-Agent of rules.
RobotsVerdict(disallow, rules) ==
    IF TestAgent(disallow, rules.URL.path, HeaderGet(rules.Header, "User-Agent"))
    THEN NilErr ELSE ErrorRobotstxtRestriction

\* The request for robots.txt keeps the IgnoreRobotsTxt of the page.
RobotsRulesGated(rules) ==
    LET aux == Selector("", "", "", FALSE, FALSE, <<>>, <<>>)
    IN  [SelectorRules(aux, rules) EXCEPT
            !.Method = "GET",
            !.URL = ResolveReference(rules.URL, URL("", "", robotsTxtPath))]

\* The request RobotsData.IsAllowed builds for the robots.txt of the host.
RobotsRules(rules) ==
    LET aux == Selector("", "", "", FALSE, FALSE, <<>>, <<>>)
    IN  [SelectorRules(aux, rules) EXCEPT
            !.Method = "GET",
            !.URL = ResolveReference(rules.URL, URL("", "", robotsTxtPath)),
            !.IgnoreRobotsTxt = TRUE]

\* RobotsData.IsAllowed once c.Do(robotsRules) has returned d: the policy
\* of the host is stored and tested.
RobotsDataStore(rules, d) ==
    LET host == rules.URL.host
    IN  IF d.err # NilErr
        THEN [st |-> d.st, err |-> d.err, pan |-> ""]
        ELSE [st |-> [d.st EXCEPT !.robots = (host :> RobotsDisallow(host)) @@ @],
              err |-> RobotsVerdict(RobotsDisallow(host), rules), pan |-> ""]

\* The stored policy of the host is not looked up.
RobotsDataIsAllowedNoLookup(c, rules, st) ==
    IF rules.URL.path = robotsTxtPath
    THEN [st |-> st, err |-> NilErr, pan |-> ""]
    ELSE RobotsDataStore(rules, Do(c, RobotsRules(rules), st))

\* RobotsData.IsAllowed of package webextractor.
RobotsDataIsAllowed(c, rules, st) ==
    IF rules.URL.path = robotsTxtPath
    THEN [st |-> st, err |-> NilErr, pan |-> ""]
    ELSE IF rules.URL.host \in DOMAIN st.robots
    THEN [st |-> st, err |-> RobotsVerdict(st.robots[rules.URL.host], rules),
          pan |-> ""]
    ELSE RobotsDataStore(rules, Do(c, RobotsRules(rules), st))

\* A collaborator that answers with the error its caller put in
\* rules.Fields["robotsErr"], and allows otherwise.
RobotsStubIsAllowed(c, rules, st) ==
    [st |-> st,
     err |-> IF "robotsErr" \in DOMAIN rules.Fields
             THEN rules.Fields["robotsErr"] ELSE NilErr,
     pan |-> ""]

\* The collaborator is entered and left.
GateEnter(st) == [st EXCEPT !.gate = @ + 1]
GateLeave(a) == [a EXCEPT !.st.gate = @ - 1]

\* c.RobotsTxt.IsAllowed(c, rules).
IsAllowedBy(c, rules, st) ==
    IF Faulty(c, "IsAllowed")
    THEN [st |-> st, err |-> NilErr, pan |-> PanicValue]
    ELSE IF c.robots = "data"
    THEN GateLeave(RobotsDataIsAllowed(c, rules, GateEnter(st)))
    ELSE RobotsStubIsAllowed(c, rules, st)

IsAllowed(c, rules, st) ==
    IsAllowedBy(c, rules, Saw(Log(st, "IsAllowed", URLArg(rules.URL)), rules))

(***************************************************************************)
(* Colibri.Do.                                                             *)
(***************************************************************************)
\* Delay.Done is called on the return of the transport, not deferred.
DoFetchDoneOnReturn(c, rules, st) ==
    LET waits == c.delay # "none" /\ rules.Delay > 0
        w == IF waits THEN DelayWait(c, rules.URL, st) ELSE [st |-> st, pan |-> ""]
        d == ClientDo(c, rules, w.st)
        stamps == c.delay # "none" /\ d.resp # NilResp
        s == IF stamps THEN DelayStamp(c, d.resp.url, d.st) ELSE [st |-> d.st, pan |-> ""]
        out(st2, resp, err, pan, waited) ==
            [st |-> st2, resp |-> resp, err |-> err, pan |-> pan,
             waited |-> waited, rules |-> rules]
    IN  IF w.pan # "" THEN out(w.st, NilResp, NilErr, w.pan, FALSE)
        ELSE IF d.pan # "" THEN out(d.st, NilResp, NilErr, d.pan, FALSE)
        ELSE out(s.st, d.resp, d.err, s.pan, waits)

\* Delay.Stamp is given the URL of the request.
DoFetchStampRequest(c, rules, st) ==
    LET waits == c.delay # "none" /\ rules.Delay > 0
        w == IF waits THEN DelayWait(c, rules.URL, st) ELSE [st |-> st, pan |-> ""]
        d == ClientDo(c, rules, w.st)
        stamps == c.delay # "none" /\ d.resp # NilResp
        s == IF stamps THEN DelayStamp(c, rules.URL, d.st) ELSE [st |-> d.st, pan |-> ""]
        out(st2, resp, err, pan, waited) ==
            [st |-> st2, resp |-> resp, err |-> err, pan |-> pan,
             waited |-> waited, rules |-> rules]
    IN  IF w.pan # "" THEN out(w.st, NilResp, NilErr, w.pan, FALSE)
        ELSE IF d.pan # "" THEN out(d.st, NilResp, NilErr, d.pan, waits)
        ELSE out(s.st, d.resp, d.err, s.pan, waits)

\* The transport is called before Delay.Wait.
DoFetchThenWait(c, rules, st) ==
    LET waits == c.delay # "none" /\ rules.Delay > 0
        d == ClientDo(c, rules, st)
        w == IF waits THEN DelayWait(c, rules.URL, d.st) ELSE [st |-> d.st, pan |-> ""]
        stamps == c.delay # "none" /\ d.resp # NilResp
        s == IF stamps THEN DelayStamp(c, d.resp.url, w.st) ELSE [st |-> w.st, pan |-> ""]
        out(st2, resp, err, pan, waited) ==
            [st |-> st2, resp |-> resp, err |-> err, pan |-> pan,
             waited |-> waited, rules |-> rules]
    IN  IF d.pan # "" THEN out(d.st, NilResp, NilErr, d.pan, FALSE)
        ELSE IF w.pan # "" THEN out(w.st, NilResp, NilErr, w.pan, FALSE)
        ELSE out(s.st, d.resp, d.err, s.pan, waits)

\* Do from the pacing gate on: Wait, the transport, Stamp.  waited says
\* that the deferred Delay.Done has been registered.
DoFetch(c, rules, st) ==
    LET waits == c.delay # "none" /\ rules.Delay > 0
        w == IF waits THEN DelayWait(c, rules.URL, st) ELSE [st |-> st, pan |-> ""]
        d == ClientDo(c, rules, w.st)
        stamps == c.delay # "none" /\ d.resp # NilResp
        s == IF stamps THEN DelayStamp(c, d.resp.url, d.st) ELSE [st |-> d.st, pan |-> ""]
        out(st2, resp, err, pan, waited) ==
            [st |-> st2, resp |-> resp, err |-> err, pan |-> pan,
             waited |-> waited, rules |-> rules]
    IN  IF w.pan # "" THEN out(w.st, NilResp, NilErr, w.pan, FALSE)
        ELSE IF d.pan # "" THEN out(d.st, NilResp, NilErr, d.pan, waits)
        ELSE out(s.st, d.resp, d.err, s.pan, waits)

\* The User-Agent is defaulted only when the header has none.
DefaultHeaderWhenAbsent(rules) ==
    LET h == IF rules.Header = NilHeader THEN Header(<<>>) ELSE rules.Header
    IN  [rules EXCEPT !.Header =
            IF HeaderGet(h, "User-Agent") = ""
            THEN HeaderSet(h, "User-Agent", DefaultUserAgent) ELSE h]

\* User-Agent defaulting of Do.
DefaultHeader(rules) ==
    LET h == IF rules.Header = NilHeader THEN Header(<<>>) ELSE rules.Header
    IN  [rules EXCEPT !.Header =
            IF TrimSpace(HeaderGet(h, "User-Agent")) = ""
            THEN HeaderSet(h, "User-Agent", DefaultUserAgent) ELSE h]

\* Do leaves before the pacing gate: no response, Done not registered.
DoEarly(st, err, pan, rules) ==
    [st |-> st, resp |-> NilResp, err |-> err, pan |-> pan,
     waited |-> FALSE, rules |-> rules]

\* The error of the robots gate is not looked at.
DoAllowedIgnoreErr(c, rules, a) ==
    IF a.pan # "" THEN DoEarly(a.st, NilErr, a.pan, rules)
    ELSE DoFetch(c, rules, a.st)

\* Do once RobotsTxt.IsAllowed has returned a.
DoAllowed(c, rules, a) ==
    IF a.pan # "" THEN DoEarly(a.st, NilErr, a.pan, rules)
    ELSE IF a.err # NilErr THEN DoEarly(a.st, a.err, "", rules)
    ELSE DoFetch(c, rules, a.st)

\* The robots gate is not opened by rules.IgnoreRobotsTxt.
DoGateAlways(c, rules, st) ==
    IF c.robots # "none"
    THEN DoAllowed(c, rules, IsAllowed(c, rules, st))
    ELSE DoFetch(c, rules, st)

\* The robots gate of Do; rules has its User-Agent.
DoGate(c, rules, st) ==
    IF c.robots # "none" /\ ~rules.IgnoreRobotsTxt
    THEN DoAllowed(c, rules, IsAllowed(c, rules, st))
    ELSE DoFetch(c, rules, st)

\* The rules are looked at before the transport.
DoBodyRulesFirst(c, rules, st) ==
    IF rules = NilRules THEN DoEarly(st, ErrRulesIsNil, "", rules)
    ELSE IF c.client = "none" THEN DoEarly(st, ErrClientIsNil, "", rules)
    ELSE DoGate(c, DefaultHeader(rules), st)

\* The body of Do up to its return or panic, deferred calls excluded.
DoBody(c, rules, st) ==
    IF c.client = "none" THEN DoEarly(st, ErrClientIsNil, "", rules)
    ELSE IF rules = NilRules THEN DoEarly(st, ErrRulesIsNil, "", rules)
    ELSE DoGate(c, DefaultHeader(rules), st)

\* The deferred recover of Do: the value of a panic of the body b or of
\* the deferred Done dn becomes the returned error.
DoRecover(b, dn) ==
    LET pan == IF dn.pan # "" THEN dn.pan ELSE b.pan
    IN  [st |-> dn.st,
         resp |-> b.resp,
         err |-> IF pan # "" THEN Error(pan) ELSE b.err,
         pan |-> "",
         rules |-> b.rules]

\* Delay.Done is not called when Do returns.
DoDeferredNoDone(c, b) == DoRecover(b, [st |-> b.st, pan |-> ""])

\* The deferred calls of Do after its body b, in reverse order of
\* registration: Delay.Done, then the recover.
DoDeferred(c, b) ==
    DoRecover(b, IF b.waited THEN DelayDone(c, b.rules.URL, b.st)
                 ELSE [st |-> b.st, pan |-> ""])

\* Colibri.Do.  rules is the caller's Rules after the call.
Do(c, rules, st) == DoDeferred(c, DoBody(c, rules, st))

(***************************************************************************)
(* The extraction engine of package parsers.                               *)
(***************************************************************************)
\* The first loop of followSelector: every raw value is converted and a
\* relative URL is resolved against the URL of the response; a value that
\* does not convert is recorded under its %v rendering.
RECURSIVE followURLs(_, _, _, _, _)
followURLs(resp, rawURL, i, urls, errs) ==
    IF i > Len(rawURL) THEN [urls |-> urls, errs |-> errs]
    ELSE LET t == ToURL(rawURL[i])
             u == IF IsAbs(t.url) THEN t.url ELSE ResolveReference(resp.url, t.url)
         IN  IF t.err # NilErr
             THEN followURLs(resp, rawURL, i + 1, urls,
                             AddError(errs, Sprint(rawURL[i]), t.err))
             ELSE followURLs(resp, rawURL, i + 1, Append(urls, u), errs)

\* The second loop of followSelector: one Extract per URL with a clone of
\* rules; a failure is recorded under the URL and the loop goes on.
RECURSIVE followLoop(_, _, _, _, _, _, _)

\* The loop left at the first URL whose Extract fails.
followTurnBreak(c, rules, urls, i, result, errs, x) ==
    IF x.err # NilErr
    THEN [st |-> x.st, val |-> Map(result),
          err |-> AddError(errs, URLString(urls[i]), x.err)]
    ELSE followLoop(c, rules, urls, i + 1,
                    (URLString(urls[i]) :> x.val) @@ result, errs, x.st)

\* The turn of the loop for urls[i], once Extract has returned x.
followTurn(c, rules, urls, i, result, errs, x) ==
    IF x.err # NilErr
    THEN followLoop(c, rules, urls, i + 1, result,
                    AddError(errs, URLString(urls[i]), x.err), x.st)
    ELSE followLoop(c, rules, urls, i + 1,
                    (URLString(urls[i]) :> x.val) @@ result, errs, x.st)

followLoop(c, rules, urls, i, result, errs, st) ==
    IF i > Len(urls) THEN [st |-> st, val |-> Map(result), err |-> errs]
    ELSE followTurn(c, rules, urls, i, result, errs,
                    Extract(c, [RulesClone(rules) EXCEPT !.URL = urls[i]], st))

\* The URLs that converted are followed whatever the other values did.
followConvertedAnyway(c, src, selector, conv, st) ==
    followLoop(c, SelectorRules(selector, src), conv.urls, 1, <<>>, conv.errs, st)

\* followSelector once its first loop has returned conv.
followConverted(c, src, selector, conv, st) ==
    IF conv.errs # NilErr
    THEN [st |-> st, val |-> Nil, err |-> conv.errs]
    ELSE followLoop(c, SelectorRules(selector, src), conv.urls, 1, <<>>, NilErr, st)

\* Relative URLs resolved against the URL of the request.
followSelectorFromRequest(c, src, resp, selector, rawURL, st) ==
    followConverted(c, src, selector,
        followURLs([resp EXCEPT !.url = src.URL], rawURL, 1, <<>>, NilErr), st)

followSelector(c, src, resp, selector, rawURL, st) ==
    followConverted(c, src, selector, followURLs(resp, rawURL, 1, <<>>, NilErr), st)

\* The loop of findAllSelector over the matched children of a selector
\* with nested selectors: index i is children[i + 1].
RECURSIVE findAllLoop(_, _, _, _, _, _, _, _, _)

\* The loop left at the first index whose sub-extraction fails.
findAllTurnBreak(c, src, resp, selector, children, i, result, errs, f) ==
    IF f.err # NilErr
    THEN [st |-> f.st, val |-> List(result),
          err |-> AddError(errs, selector.Name \o "#" \o ToString(i), f.err)]
    ELSE findAllLoop(c, src, resp, selector, children, i + 1,
                     Append(result, f.val), errs, f.st)

\* The turn of the loop for index i, once findSelectors has returned f.
findAllTurn(c, src, resp, selector, children, i, result, errs, f) ==
    IF f.err # NilErr
    THEN findAllLoop(c, src, resp, selector, children, i + 1, result,
                     AddError(errs, selector.Name \o "#" \o ToString(i), f.err), f.st)
    ELSE findAllLoop(c, src, resp, selector, children, i + 1,
                     Append(result, f.val), errs, f.st)

findAllLoop(c, src, resp, selector, children, i, result, errs, st) ==
    IF i >= Len(children) THEN [st |-> st, val |-> List(result), err |-> errs]
    ELSE findAllTurn(c, src, resp, selector, children, i, result, errs,
                     findSelectors(c, src, resp, selector.Selectors, children[i + 1], st))

\* No match returns nil instead of the empty slice.
findAllSelectorNil(c, src, resp, selector, parent, st) ==
    LET st1 == Log(st, "FindAll", selector.Name)
        found == FindAll(parent, selector.Expr, selector.Type)
        values == [i \in 1..Len(found.children) |-> ElementValue(found.children[i])]
    IN  IF found.err # NilErr THEN [st |-> st1, val |-> Nil, err |-> found.err]
        ELSE IF Len(found.children) = 0 THEN [st |-> st1, val |-> Nil, err |-> NilErr]
        ELSE IF ~selector.Follow /\ Len(selector.Selectors) > 0
        THEN findAllLoop(c, src, resp, selector, found.children, 0, <<>>, NilErr, st1)
        ELSE IF selector.Follow
        THEN followSelector(c, src, resp, selector, values, st1)
        ELSE [st |-> st1, val |-> List(values), err |-> NilErr]

findAllSelector(c, src, resp, selector, parent, st) ==
    LET st1 == Log(st, "FindAll", selector.Name)
        found == FindAll(parent, selector.Expr, selector.Type)
        values == [i \in 1..Len(found.children) |-> ElementValue(found.children[i])]
    IN  IF found.err # NilErr THEN [st |-> st1, val |-> Nil, err |-> found.err]
        ELSE IF ~selector.Follow /\ Len(selector.Selectors) > 0
        THEN findAllLoop(c, src, resp, selector, found.children, 0, <<>>, NilErr, st1)
        ELSE IF selector.Follow
        THEN followSelector(c, src, resp, selector, values, st1)
        ELSE [st |-> st1, val |-> List(values), err |-> NilErr]

\* The nested selectors are looked at before the Follow flag.
findSelectorNestedFirst(c, src, resp, selector, parent, st) ==
    IF selector.All THEN findAllSelector(c, src, resp, selector, parent, st)
    ELSE LET st1 == Log(st, "Find", selector.Name)
             found == Find(parent, selector.Expr, selector.Type)
         IN  IF found.err # NilErr THEN [st |-> st1, val |-> Nil, err |-> found.err]
             ELSE IF found.child = NilElement THEN [st |-> st1, val |-> Nil, err |-> NilErr]
             ELSE IF Len(selector.Selectors) > 0
             THEN findSelectors(c, src, resp, selector.Selectors, found.child, st1)
             ELSE IF selector.Follow
             THEN followSelector(c, src, resp, selector, <<ElementValue(found.child)>>, st1)
             ELSE [st |-> st1, val |-> ElementValue(found.child), err |-> NilErr]

\* No match is reported as an error.
findSelectorAbsentErr(c, src, resp, selector, parent, st) ==
    IF selector.All THEN findAllSelector(c, src, resp, selector, parent, st)
    ELSE LET st1 == Log(st, "Find", selector.Name)
             found == Find(parent, selector.Expr, selector.Type)
         IN  IF found.err # NilErr THEN [st |-> st1, val |-> Nil, err |-> found.err]
             ELSE IF found.child = NilElement
             THEN [st |-> st1, val |-> Nil, err |-> ErrNotFound]
             ELSE IF selector.Follow
             THEN followSelector(c, src, resp, selector, <<ElementValue(found.child)>>, st1)
             ELSE IF Len(selector.Selectors) > 0
             THEN findSelectors(c, src, resp, selector.Selectors, found.child, st1)
             ELSE [st |-> st1, val |-> ElementValue(found.child), err |-> NilErr]

findSelector(c, src, resp, selector, parent, st) ==
    IF selector.All THEN findAllSelector(c, src, resp, selector, parent, st)
    ELSE LET st1 == Log(st, "Find", selector.Name)
             found == Find(parent, selector.Expr, selector.Type)
         IN  IF found.err # NilErr THEN [st |-> st1, val |-> Nil, err |-> found.err]
             ELSE IF found.child = NilElement THEN [st |-> st1, val |-> Nil, err |-> NilErr]
             ELSE IF selector.Follow
             THEN followSelector(c, src, resp, selector, <<ElementValue(found.child)>>, st1)
             ELSE IF Len(selector.Selectors) > 0
             THEN findSelectors(c, src, resp, selector.Selectors, found.child, st1)
             ELSE [st |-> st1, val |-> ElementValue(found.child), err |-> NilErr]

\* The loop of findSelectors over the sibling list.
RECURSIVE findSelectorsLoop(_, _, _, _, _, _, _, _, _)

\* What a failing selector found is kept under its name.
findSelectorsTurnKeep(c, src, resp, selectors, parent, i, result, errs, f) ==
    findSelectorsLoop(c, src, resp, selectors, parent, i + 1,
                      (selectors[i].Name :> f.val) @@ result,
                      AddError(errs, selectors[i].Name, f.err), f.st)

\* The loop left at the first failing selector.
findSelectorsTurnBreak(c, src, resp, selectors, parent, i, result, errs, f) ==
    IF f.err # NilErr
    THEN [st |-> f.st, val |-> Map(result),
          err |-> AddError(errs, selectors[i].Name, f.err)]
    ELSE findSelectorsLoop(c, src, resp, selectors, parent, i + 1,
                           (selectors[i].Name :> f.val) @@ result, errs, f.st)

\* The turn of the loop for selectors[i], once findSelector has returned f:
\* an error is recorded under the name of the selector and found is
\* dropped, else found is stored under the name.
findSelectorsTurn(c, src, resp, selectors, parent, i, result, errs, f) ==
    IF f.err # NilErr
    THEN findSelectorsLoop(c, src, resp, selectors, parent, i + 1, result,
                           AddError(errs, selectors[i].Name, f.err), f.st)
    ELSE findSelectorsLoop(c, src, resp, selectors, parent, i + 1,
                           (selectors[i].Name :> f.val) @@ result, errs, f.st)

findSelectorsLoop(c, src, resp, selectors, parent, i, result, errs, st) ==
    IF i > Len(selectors) THEN [st |-> st, val |-> Map(result), err |-> errs]
    ELSE findSelectorsTurn(c, src, resp, selectors, parent, i, result, errs,
                           findSelector(c, src, resp, selectors[i], parent, st))

\* A nil selector slice is the empty sequence.
findSelectors(c, src, resp, selectors, parent, st) ==
    IF resp = NilResp \/ selectors = <<>> \/ parent = NilElement
    THEN [st |-> st, val |-> Nil, err |-> NilErr]
    ELSE findSelectorsLoop(c, src, resp, selectors, parent, 1, <<>>, NilErr, st)

(***************************************************************************)
(* Parsers.Parse and Colibri.Extract.                                      *)
(***************************************************************************)
\* The format New() decodes contentType as, "" when no pattern matches.
FormatOf(contentType) ==
    LET exprs == Matching(ParsersNew, contentType)
    IN  IF exprs = {} THEN "" ELSE ParsersNew[CHOOSE expr \in exprs : TRUE]

\* ParseHTML, ParseJSON, ParseText, ParseXML: the root element.
ParserFunc(format, resp) == Element(format, URLString(resp.url), "root")

\* resp.Header().Get("Content-Type").
ContentType(resp) == IF resp = NilResp THEN "" ELSE resp.contentType

\* The patterns the range over funcs can stop at: any that matches, ""
\* when it ends without a match.
Stops(funcs, contentType) ==
    IF Matching(funcs, contentType) = {} THEN {""} ELSE Matching(funcs, contentType)

\* Parsers.Match(contentType).
ParsersMatch(funcs, contentType) == Matching(funcs, contentType) # {}

\* Parsers.Parse(rules, resp) when the range over funcs stops at expr.
ParsersParseAt(c, rules, resp, st, expr) ==
    IF rules = NilRules \/ resp = NilResp
    THEN [st |-> st, val |-> Nil, err |-> NilErr]
    ELSE IF expr = ""
    THEN [st |-> st, val |-> Nil, err |-> ErrNotMatch]
    ELSE findSelectors(c, rules, resp, rules.Selectors,
                       ParserFunc(st.funcs[expr], resp), st)

ParsersParse(c, rules, resp, st) ==
    ParsersParseAt(c, rules, resp, st,
                   CHOOSE expr \in Stops(st.funcs, ContentType(resp)) : TRUE)

\* A Clear that deletes nothing.
ParsersClearNone(funcs) == funcs

\* Parsers.Clear().
ParsersClear(funcs) == <<>>

\* Set(parsers, expr, parserFunc): parserFunc is the format it decodes,
\* "" for a nil function.
ParsersSet(funcs, expr, parserFunc) ==
    IF expr = "" \/ parserFunc = ""
    THEN [funcs |-> funcs, err |-> NilErr]
    ELSE IF ~Compiles(expr)
    THEN [funcs |-> funcs, err |-> Error("error parsing regexp")]
    ELSE [funcs |-> (expr :> parserFunc) @@ funcs, err |-> NilErr]

\* A call that returned p without panicking.
Returned(p) == [st |-> p.st, val |-> p.val, err |-> p.err, pan |-> ""]

\* c.Parser.Parse(rules, resp).
Parse(c, rules, resp, st) ==
    IF Faulty(c, "Parse")
    THEN [st |-> Log(st, "Parse", URLArg(resp.url)), val |-> Nil, err |-> NilErr,
          pan |-> PanicValue]
    ELSE Returned(ParsersParse(c, rules, resp, Log(st, "Parse", URLArg(resp.url))))

\* What the body of Extract leaves in its results.
ExtractOut(st, resp, val, err, pan, rules) ==
    [st |-> st, resp |-> resp, val |-> val, err |-> err, pan |-> pan,
     rules |-> rules]

\* Extract once c.Parser.Parse has returned p for the response of d.
ExtractParsed(d, p) ==
    IF p.pan # "" THEN ExtractOut(p.st, d.resp, Nil, NilErr, p.pan, d.rules)
    ELSE ExtractOut(p.st, d.resp, p.val, p.err, "", d.rules)

\* The response of a failed Do is handed on.
ExtractDoneKeepResp(c, d) ==
    IF d.err # NilErr THEN ExtractOut(d.st, d.resp, Nil, d.err, "", d.rules)
    ELSE IF Len(d.rules.Selectors) > 0
    THEN ExtractParsed(d, Parse(c, d.rules, d.resp, d.st))
    ELSE ExtractOut(d.st, d.resp, Nil, NilErr, "", d.rules)

\* The response is handed to the parser whatever the selector list holds.
ExtractDoneAlwaysParse(c, d) ==
    IF d.err # NilErr THEN ExtractOut(d.st, NilResp, Nil, d.err, "", d.rules)
    ELSE ExtractParsed(d, Parse(c, d.rules, d.resp, d.st))

\* Extract once c.Do has returned d.
ExtractDone(c, d) ==
    IF d.err # NilErr THEN ExtractOut(d.st, NilResp, Nil, d.err, "", d.rules)
    ELSE IF Len(d.rules.Selectors) > 0
    THEN ExtractParsed(d, Parse(c, d.rules, d.resp, d.st))
    ELSE ExtractOut(d.st, d.resp, Nil, NilErr, "", d.rules)

\* The decoder is looked for once the request is known to be possible.
ExtractBodyParserLast(c, rules, st) ==
    IF c.client = "none" THEN ExtractOut(st, NilResp, Nil, ErrClientIsNil, "", rules)
    ELSE IF rules = NilRules THEN ExtractOut(st, NilResp, Nil, ErrRulesIsNil, "", rules)
    ELSE IF c.parser = "none" THEN ExtractOut(st, NilResp, Nil, ErrParserIsNil, "", rules)
    ELSE ExtractDone(c, Do(c, rules, st))

\* The body of Extract up to its return or panic.
ExtractBody(c, rules, st) ==
    IF c.parser = "none" THEN ExtractOut(st, NilResp, Nil, ErrParserIsNil, "", rules)
    ELSE ExtractDone(c, Do(c, rules, st))

\* Extract without its deferred recover.
ExtractNoRecover(b) ==
    [st |-> [b.st EXCEPT !.depth = @ - 1],
     resp |-> b.resp,
     val |-> b.val,
     err |-> b.err,
     pan |-> b.pan,
     rules |-> b.rules]

\* The deferred recover of Extract: the value of a panic of the body b
\* becomes the returned error.
ExtractRecover(b) ==
    [st |-> [b.st EXCEPT !.depth = @ - 1],
     resp |-> b.resp,
     val |-> b.val,
     err |-> IF b.pan # "" THEN Error(b.pan) ELSE b.err,
     pan |-> "",
     rules |-> b.rules]

\* Colibri.Extract: the body, then the deferred recover.
Extract(c, rules, st) ==
    ExtractRecover(ExtractBody(c, rules,
        [Log(st, "Extract", IF rules = NilRules THEN "" ELSE URLArg(rules.URL))
            EXCEPT !.depth = @ + 1]))

(***************************************************************************)
(* The state: a Colibri with its collaborators, the collaborators' state   *)
(* between calls, and the call in progress with what it returned.          *)
(***************************************************************************)
VARIABLES c, st, call

vars == <<c, st, call>>

Idle == [op |-> "idle"]

\* A Colibri: which collaborators are configured, and which of their
\* methods panic.
Colibri(client, robots, delay, parser, faults) ==
    [client |-> client, robots |-> robots, delay |-> delay, parser |-> parser,
     faults |-> faults]

Methods == {"IsAllowed", "Wait", "ClientDo", "Stamp", "Done", "Parse"}

Configs ==
    {Colibri(cl, ro, de, pa, {}) :
        cl \in {"none", "net"}, ro \in {"none", "stub", "data"},
        de \in {"none", "rec"}, pa \in {"none", "parsers"}}
    \cup {Colibri("net", ro, "rec", "parsers", {m}) :
            ro \in {"stub", "data"}, m \in Methods}

Rules(url, header, ignoreRobotsTxt, delay, selectors, fields) ==
    [Method |-> "GET", URL |-> url, Proxy |-> NilURL, Header |-> header,
     Timeout |-> 0, UseCookies |-> FALSE, IgnoreRobotsTxt |-> ignoreRobotsTxt,
     Delay |-> delay, Selectors |-> selectors, Fields |-> fields]

Leaf(name, expr) == Selector(name, expr, "", FALSE, FALSE, <<>>, <<>>)

\* The Rules the callers of Do and Extract pass.
CallURLs ==
    {URL("https", "h.test", "/p"), URL("https", "h.test", "/b"),
     URL("https", "h.test", "/missing"), URL("https", "h.test", "/robots.txt"),
     URL("https", "x.test", "/p"), URL("https", "j.test", "/p"),
     URL("https", "h.test", "/r"), URL("https", "h.test", "/e")}

CallSelectors ==
    {<<>>, <<Leaf("title", "title")>>,
     <<Selector("next", "links", "", TRUE, TRUE, <<Leaf("title", "title")>>, <<>>)>>}

CallHeaders ==
    {NilHeader, Header(("User-Agent" :> "test/0.1")),
     Header(("Accept" :> "text/html")),
     Header(("Accept" :> "text/html") @@ ("User-Agent" :> "   "))}

CallRules ==
    {NilRules} \cup
    {Rules(u, h, ig, d, sels, f) :
        u \in CallURLs,
        h \in CallHeaders,
        ig \in BOOLEAN, d \in {0, 1}, sels \in CallSelectors,
        f \in {<<>>, ("robotsErr" :> Error("Test Error"))}}

Init ==
    /\ c \in Configs
    /\ st = NewState
    /\ call = Idle

\* A caller runs c.Do(rules).
CallDo(rules) ==
    /\ call = Idle
    /\ LET r == Do(c, rules, st)
       IN  /\ call' = [op |-> "Do", rules |-> rules, before |-> st, out |-> r]
           /\ st' = Quiet(r.st)
    /\ UNCHANGED c

\* A caller runs c.Extract(rules).
CallExtract(rules) ==
    /\ call = Idle
    /\ LET r == Extract(c, rules, st)
       IN  /\ call' = [op |-> "Extract", rules |-> rules, before |-> st, out |-> r]
           /\ st' = Quiet(r.st)
    /\ UNCHANGED c

\* The caller is done with what the call returned.
Return ==
    /\ call # Idle
    /\ call' = Idle
    /\ UNCHANGED <<c, st>>

\* RobotsData.Clear.
RobotsDataClear ==
    /\ call = Idle
    /\ c.robots = "data"
    /\ st' = [st EXCEPT !.robots = <<>>]
    /\ UNCHANGED <<c, call>>

Next ==
    \/ \E rules \in CallRules : CallDo(rules)
    \/ \E rules \in CallRules : CallExtract(rules)
    \/ Return
    \/ RobotsDataClear

Spec == Init /\ [][Next]_vars

(***************************************************************************)
(* The engine on its own: one Colibri with a transport and the decoders,   *)
(* and Extract over the selector trees of a bounded catalogue.             *)
(***************************************************************************)
EngineColibri == Colibri("net", "none", "none", "parsers", {})

EngineURLs ==
    {URL("https", "h.test", "/p"), URL("https", "x.test", "/p"),
     URL("https", "j.test", "/p"), URL("https", "t.test", "/p"),
     URL("https", "h.test", "/r")}

EngineExprs == {"links", "mixed", "badurl", "items", "title", "none", "bad"}

EngineTypes == {"", "css"}

\* The nested selectors of the first selector of a list.
NestedSelectors ==
    {<<>>,
     <<Leaf("t", "title")>>,
     <<Selector("go", "link", "", FALSE, TRUE, <<>>, <<>>)>>,
     <<Leaf("t", "title"), Leaf("x", "bad")>>}

FirstSelectors ==
    {Selector("a", e, t, all, follow, nested, <<>>) :
        e \in EngineExprs, t \in EngineTypes,
        all \in BOOLEAN, follow \in BOOLEAN, nested \in NestedSelectors}

\* The selectors that follow the first one in a list.
MoreSelectors ==
    {Selector(n, e, "", FALSE, FALSE, <<>>, <<>>) :
        n \in {"b", "c"}, e \in {"title", "bad"}}
    \cup {Selector(n, "none", "", TRUE, FALSE, <<>>, <<>>) : n \in {"b", "c"}}

RECURSIVE SeqsUpTo(_, _)
\* The sequences over S of length at most n.
SeqsUpTo(S, n) ==
    IF n = 0 THEN {<<>>}
    ELSE LET shorter == SeqsUpTo(S, n - 1)
         IN  shorter \cup {Append(q, x) : q \in shorter, x \in S}

\* A sibling list as newSelectors builds it from the keys of a raw
\* mapping: no name is empty and no two siblings share a name.
Siblings(selectors) ==
    /\ \A i \in DOMAIN selectors : selectors[i].Name # ""
    /\ \A i, j \in DOMAIN selectors :
            selectors[i].Name = selectors[j].Name => i = j

SiblingLists ==
    {selectors \in
        {<<first>> \o more :
            first \in FirstSelectors, more \in SeqsUpTo(MoreSelectors, MaxSiblings - 1)} :
        Siblings(selectors)}

InitEngine ==
    /\ c = EngineColibri
    /\ st = NewState
    /\ call = Idle

\* A caller extracts the page at url with the selectors of a catalogue list.
ExtractPage(url, selectors) ==
    CallExtract(Rules(url, NilHeader, FALSE, 0, selectors, <<>>))

NextEngine ==
    \/ /\ call = Idle
       /\ \E url \in EngineURLs, selectors \in SiblingLists : ExtractPage(url, selectors)
    \/ Return

SpecEngine == InitEngine /\ [][NextEngine]_vars

(***************************************************************************)
(* What a finished call shows: the call record holds the Rules passed, the *)
(* collaborators' state before the call and everything the call returned.  *)
(***************************************************************************)
\* The invocations made during the call in progress, in order.
Trace == call.out.st.trace

\* An Extract has returned whose response was handed to the parser.
Parsed ==
    /\ call # Idle
    /\ call.op = "Extract"
    /\ call.out.resp # NilResp
    /\ Len(call.rules.Selectors) > 0

\* The sibling list of the call and the root element of its page.
Top == call.rules.Selectors
Root == ParserFunc(FormatOf(call.out.resp.contentType), call.out.resp)

\* What selector returns when it is evaluated on the page on its own.
Alone(selector) ==
    findSelector(c, call.out.rules, call.out.resp, selector, Root, NewState)

\* The siblings whose evaluation returns an error.
Failing == {i \in DOMAIN Top : Alone(Top[i]).err # NilErr}

\* The element of the page was queried for the selector called name.
Evaluated(name) ==
    \E k \in DOMAIN Trace :
        /\ Trace[k].op \in {"Find", "FindAll"}
        /\ Trace[k].arg = name
        /\ Trace[k].depth = 1

(***************************************************************************)
(* C1: every selector of a sibling list is evaluated whatever its siblings *)
(* return; the returned mapping holds exactly the names of the selectors   *)
(* whose evaluation returned no error, and the aggregated error holds      *)
(* exactly one entry per failing selector, under the selector's name.      *)
(***************************************************************************)
C1_SiblingsIndependent ==
    Parsed =>
        /\ \A i \in DOMAIN Top : Evaluated(Top[i].Name)
        /\ call.out.val.kind = "map"
        /\ DOMAIN call.out.val.m = {Top[i].Name : i \in DOMAIN Top \ Failing}
        /\ ErrKeys(call.out.err) = {Top[i].Name : i \in Failing}
        /\ ErrCount(call.out.err) = Cardinality(Failing)

\* A failing selector comes before one that succeeds.
C1_Witness ==
    /\ Parsed
    /\ \E i, j \in DOMAIN Top : i < j /\ i \in Failing /\ j \notin Failing

(***************************************************************************)
(* The robots gate of a finished Do.                                       *)
(***************************************************************************)
\* A Do has returned that consulted the RobotsTxt collaborator.
Gated ==
    /\ call # Idle
    /\ call.op = "Do"
    /\ c.client # "none"
    /\ c.robots # "none"
    /\ call.rules # NilRules
    /\ ~call.rules.IgnoreRobotsTxt

\* What IsAllowed returned to that Do.
Gate == IsAllowed(c, DefaultHeader(call.rules), call.before)

\* IsAllowed returned an error.
Denied == Gated /\ Gate.pan = "" /\ Gate.err # NilErr

\* The invocations of the transport and of the pacer during the call.
Paced == {k \in DOMAIN Trace : Trace[k].op \in {"ClientDo", "Wait", "Stamp", "Done"}}

(***************************************************************************)
(* C2, as stated: when IsAllowed returns an error, Do returns that error   *)
(* with a nil response and neither HTTPClient.Do nor Delay.Wait, Stamp or  *)
(* Done is invoked during the call.                                        *)
(***************************************************************************)
C2_NoInvocationDuringCall ==
    Denied =>
        /\ call.out.err = Gate.err
        /\ call.out.resp = NilResp
        /\ Paced = {}

(***************************************************************************)
(* C2, amended: when IsAllowed returns an error, Do returns that error     *)
(* with a nil response and Do itself invokes neither HTTPClient.Do nor     *)
(* Delay.Wait, Stamp or Done: every such invocation during the call is     *)
(* made by the RobotsTxt collaborator inside IsAllowed.                    *)
(***************************************************************************)
C2_DeniedDoInvokesNothing ==
    Denied =>
        /\ call.out.err = Gate.err
        /\ call.out.resp = NilResp
        /\ \A k \in Paced : Trace[k].gate > 0

\* RobotsData denies the page after fetching the robots.txt of its host.
C2_Witness ==
    /\ Denied
    /\ Gate.err = ErrorRobotstxtRestriction
    /\ Paced # {}

(***************************************************************************)
(* C3: a panic of the RobotsTxt, Delay, HTTPClient or Parser collaborator  *)
(* during Do or Extract never reaches the caller: the call returns a       *)
(* non-nil error whose message is the panic value.                         *)
(***************************************************************************)
\* A collaborator method that panics was invoked during the call.
Panicked == \E k \in DOMAIN Trace : Trace[k].op \in c.faults

C3_PanicsRecovered ==
    call # Idle =>
        /\ call.out.pan = ""
        /\ Panicked => call.out.err = Error(PanicValue)

\* The parser panicked during an Extract.
C3_Witness ==
    /\ call # Idle
    /\ call.op = "Extract"
    /\ "Parse" \in c.faults
    /\ Panicked

(***************************************************************************)
(* The first selector of the sibling list of a finished Extract, when it   *)
(* follows the values it matches.                                          *)
(***************************************************************************)
First == Top[1]

\* The children FindAll returns for the first selector, and the element
\* Find returns for it.
Children == FindAll(Root, First.Expr, First.Type)
Child == Find(Root, First.Expr, First.Type)

\* The first selector is evaluated without an error of its expression.
Queried ==
    /\ Parsed
    /\ IF First.All THEN Children.err = NilErr ELSE Child.err = NilErr

\* The values followSelector is handed: the candidate URLs.
Candidates ==
    IF First.All
    THEN [i \in 1..Len(Children.children) |-> ElementValue(Children.children[i])]
    ELSE IF Child.child = NilElement THEN <<>>
    ELSE <<ElementValue(Child.child)>>

Converts(value) == ToURL(value).err = NilErr

\* The absolute URL a value that converts stands for on this page.
Resolved(value) ==
    IF IsAbs(ToURL(value).url) THEN ToURL(value).url
    ELSE ResolveReference(call.out.resp.url, ToURL(value).url)

Good == {i \in DOMAIN Candidates : Converts(Candidates[i])}
Bad == DOMAIN Candidates \ Good

\* What the nested Extract of candidate i returns on its own.
Nested(i) ==
    Extract(c, [RulesClone(SelectorRules(First, call.out.rules))
                   EXCEPT !.URL = Resolved(Candidates[i])], NewState)

Succeeded == {i \in Good : Nested(i).err = NilErr}
Failed == Good \ Succeeded

\* The nested Extracts the call issued itself, and those for one URL.
Issued == {k \in DOMAIN Trace : Trace[k].op = "Extract" /\ Trace[k].depth = 1}
IssuedFor(u) == {k \in Issued : Trace[k].arg = URLString(u)}

\* What the aggregated error holds under the name of the first selector.
FirstErrs == ErrGet(call.out.err, First.Name)

AllFollow == Queried /\ First.All /\ First.Follow

(***************************************************************************)
(* C4, as stated: for an All+Follow selector a failing candidate (a value  *)
(* that does not convert to a URL, or a nested Extract that fails) never   *)
(* keeps the others from being attempted: every other candidate gets       *)
(* exactly one nested Extract, and each failure is recorded under the      *)
(* string of its URL.                                                      *)
(***************************************************************************)
C4_FailuresNeverPrevent ==
    AllFollow =>
        /\ \A i \in Good : Cardinality(IssuedFor(Resolved(Candidates[i]))) = 1
        /\ ErrKeys(FirstErrs) =
              {URLString(Resolved(Candidates[i])) : i \in Failed}
              \cup {Sprint(Candidates[i]) : i \in Bad}

(***************************************************************************)
(* C4, amended: a nested Extract that fails never keeps the other URLs     *)
(* from being attempted: when every matched value converts, every          *)
(* candidate gets exactly one nested Extract and each failure is recorded  *)
(* under the string of its URL; when some matched value does not convert,  *)
(* no nested Extract is issued at all and only the values that do not      *)
(* convert are recorded, each under its %v rendering.                      *)
(***************************************************************************)
C4_ExtractFailuresNeverPrevent ==
    AllFollow =>
        IF Bad = {}
        THEN /\ \A i \in Good : Cardinality(IssuedFor(Resolved(Candidates[i]))) = 1
             /\ Cardinality(Issued) = Len(Candidates)
             /\ ErrKeys(FirstErrs) = {URLString(Resolved(Candidates[i])) : i \in Failed}
        ELSE /\ Issued = {}
             /\ ErrKeys(FirstErrs) = {Sprint(Candidates[i]) : i \in Bad}

\* A nested Extract fails and a later candidate is still followed.
C4_Witness ==
    /\ AllFollow
    /\ Bad = {}
    /\ \E i \in Failed, j \in Good : i < j

(***************************************************************************)
(* C5, as stated: when some but not all URLs of an All+Follow selector     *)
(* fail, the mapping the enclosing extraction returns holds under the name *)
(* of the selector a mapping with exactly the URLs that succeeded, and the *)
(* failed URLs are in the aggregated error under their URL string.         *)
(***************************************************************************)
SomeFollowsFail == AllFollow /\ Bad = {} /\ Failed # {} /\ Succeeded # {}

C5_PartialMappingInOutput ==
    SomeFollowsFail =>
        /\ First.Name \in DOMAIN call.out.val.m
        /\ call.out.val.m[First.Name].kind = "map"
        /\ DOMAIN call.out.val.m[First.Name].m =
              {URLString(Resolved(Candidates[i])) : i \in Succeeded}
        /\ ErrKeys(FirstErrs) = {URLString(Resolved(Candidates[i])) : i \in Failed}

(***************************************************************************)
(* C5, amended: when some but not all URLs of an All+Follow selector fail, *)
(* followSelector returns the mapping of exactly the URLs that succeeded   *)
(* together with the error, and the enclosing extraction drops that        *)
(* mapping: its output has no entry under the name of the selector, and    *)
(* its aggregated error holds under that name exactly the failed URLs,     *)
(* each under its URL string.                                              *)
(***************************************************************************)
C5_PartialMappingDropped ==
    SomeFollowsFail =>
        /\ Alone(First).val.kind = "map"
        /\ DOMAIN Alone(First).val.m =
              {URLString(Resolved(Candidates[i])) : i \in Succeeded}
        /\ First.Name \notin DOMAIN call.out.val.m
        /\ First.Name \in ErrKeys(call.out.err)
        /\ ErrKeys(FirstErrs) = {URLString(Resolved(Candidates[i])) : i \in Failed}

\* One URL of three is not found.
C5_Witness ==
    /\ SomeFollowsFail
    /\ Cardinality(Succeeded) = 2
    /\ Cardinality(Failed) = 1

(***************************************************************************)
(* The first selector of the sibling list, when it matches all children    *)
(* and hands each to its nested selectors.                                 *)
(***************************************************************************)
AllNested ==
    /\ Queried
    /\ First.All
    /\ ~First.Follow
    /\ Len(First.Selectors) > 0

\* What the sub-extraction of the matched child of index i returns on its
\* own; indices start at 0.
Sub(i) ==
    findSelectors(c, call.out.rules, call.out.resp, First.Selectors,
                  Children.children[i + 1], NewState)

Indices == {i \in 0..(Len(Children.children) - 1) : TRUE}
FailedIndices == {i \in Indices : Sub(i).err # NilErr}

RECURSIVE Outputs(_)
\* The outputs of the successful indices below n, in match order.
Outputs(n) ==
    IF n = 0 THEN <<>>
    ELSE IF (n - 1) \in FailedIndices THEN Outputs(n - 1)
    ELSE Append(Outputs(n - 1), Sub(n - 1).val)

IndexKey(i) == First.Name \o "#" \o ToString(i)

\* Every nested selector was evaluated once for every matched child.
AllIndicesProcessed ==
    \A j \in DOMAIN First.Selectors :
        Cardinality({k \in DOMAIN Trace :
                        /\ Trace[k].op \in {"Find", "FindAll"}
                        /\ Trace[k].arg = First.Selectors[j].Name
                        /\ Trace[k].depth = 1})
            = Len(Children.children)

(***************************************************************************)
(* C6, as stated: for an All selector with nested selectors and no Follow, *)
(* a failure at child index i is recorded under "<name>#<i>" and the       *)
(* remaining indices are still processed; the entry of the selector in the *)
(* enclosing output mapping is the ordered list of the outputs of the      *)
(* successful indices.                                                     *)
(***************************************************************************)
C6_ListOfSuccessfulInOutput ==
    AllNested =>
        /\ AllIndicesProcessed
        /\ ErrKeys(FirstErrs) = {IndexKey(i) : i \in FailedIndices}
        /\ First.Name \in DOMAIN call.out.val.m
        /\ call.out.val.m[First.Name] = List(Outputs(Len(Children.children)))

(***************************************************************************)
(* C6, amended: a failure at child index i is recorded under "<name>#<i>"  *)
(* and the remaining indices are still processed; findAllSelector returns  *)
(* the ordered list of the outputs of the successful indices, which is the *)
(* entry of the selector in the enclosing output mapping when no index     *)
(* fails; when an index fails the enclosing mapping has no entry for the   *)
(* selector and the "<name>#<i>" errors are under its name in the          *)
(* aggregated error.                                                       *)
(***************************************************************************)
C6_ListOfSuccessfulReturned ==
    AllNested =>
        /\ AllIndicesProcessed
        /\ ErrKeys(FirstErrs) = {IndexKey(i) : i \in FailedIndices}
        /\ Alone(First).val = List(Outputs(Len(Children.children)))
        /\ IF FailedIndices = {}
           THEN /\ First.Name \in DOMAIN call.out.val.m
                /\ call.out.val.m[First.Name] = List(Outputs(Len(Children.children)))
           ELSE /\ First.Name \notin DOMAIN call.out.val.m
                /\ First.Name \in ErrKeys(call.out.err)

\* The first of two matched children fails and the second succeeds, or
\* the other way round.
C6_Witness ==
    /\ AllNested
    /\ FailedIndices # {}
    /\ FailedIndices # Indices

(***************************************************************************)
(* The first selector of the sibling list, when it asks for one match and  *)
(* its expression matches nothing below the root of the page.              *)
(***************************************************************************)
Format == FormatOf(call.out.resp.contentType)

MatchesNothing == Kids(Root.node, First.Expr) = <<>>

OneNoMatch == Queried /\ ~First.All /\ MatchesNothing

(***************************************************************************)
(* C7, as stated: a non-All selector whose expression matches nothing has, *)
(* in HTML, XML, JSON and plain text alike, its name in the output mapping *)
(* with the value nil, and no error is recorded for it.                    *)
(***************************************************************************)
C7_NoMatchIsNil ==
    OneNoMatch =>
        /\ First.Name \in DOMAIN call.out.val.m
        /\ call.out.val.m[First.Name] = Nil
        /\ First.Name \notin ErrKeys(call.out.err)

(***************************************************************************)
(* C7, amended: in HTML, XML and JSON a non-All selector whose expression  *)
(* matches nothing has its name in the output mapping with the value nil   *)
(* and no error; in plain text Find returns an element over the empty      *)
(* match, so a selector without Follow and without nested selectors has    *)
(* its name in the output mapping with the empty string and no error.      *)
(***************************************************************************)
C7_NoMatchIsNilButText ==
    OneNoMatch =>
        IF Format # "text"
        THEN /\ First.Name \in DOMAIN call.out.val.m
             /\ call.out.val.m[First.Name] = Nil
             /\ First.Name \notin ErrKeys(call.out.err)
        ELSE (~First.Follow /\ First.Selectors = <<>>) =>
                /\ First.Name \in DOMAIN call.out.val.m
                /\ call.out.val.m[First.Name] = Str("")
                /\ First.Name \notin ErrKeys(call.out.err)

\* Nothing matches on an HTML page for a selector that would follow.
C7_Witness ==
    /\ OneNoMatch
    /\ Format = "html"
    /\ First.Follow

(***************************************************************************)
(* C8: an All selector without Follow whose expression matches nothing has *)
(* its name in the output mapping with an empty list as its value and no   *)
(* error, with nested selectors and without.                               *)
(***************************************************************************)
\* The siblings that ask for all matches, do not follow, and match nothing.
AllNoMatch ==
    {i \in DOMAIN Top :
        /\ Top[i].All
        /\ ~Top[i].Follow
        /\ FindAll(Root, Top[i].Expr, Top[i].Type).err = NilErr
        /\ Kids(Root.node, Top[i].Expr) = <<>>}

C8_NoMatchIsEmptyList ==
    Parsed =>
        \A i \in AllNoMatch :
            /\ Top[i].Name \in DOMAIN call.out.val.m
            /\ call.out.val.m[Top[i].Name] = List(<<>>)
            /\ Top[i].Name \notin ErrKeys(call.out.err)

\* Two such siblings, the first with nested selectors and the second without.
C8_Witness ==
    /\ Parsed
    /\ Len(Top) = 2
    /\ AllNoMatch = {1, 2}
    /\ Len(Top[1].Selectors) > 0
    /\ Len(Top[2].Selectors) = 0

(***************************************************************************)
(* C9: for a Follow selector every matched value that is a relative URL is *)
(* resolved against the URL of the response being extracted, not the URL   *)
(* of the request, and an absolute value is used as it is; the nested      *)
(* Extract is issued with the resolved URL, and when all follows succeed   *)
(* the result of the selector is a mapping whose keys are exactly the      *)
(* strings of the resolved URLs.                                           *)
(***************************************************************************)
Following == Queried /\ First.Follow /\ Candidates # <<>> /\ Bad = {}

C9_ResolvedAgainstResponse ==
    Following =>
        /\ {Trace[k].arg : k \in Issued} =
              {URLString(Resolved(Candidates[i])) : i \in Good}
        /\ Failed = {} =>
              /\ First.Name \in DOMAIN call.out.val.m
              /\ call.out.val.m[First.Name].kind = "map"
              /\ DOMAIN call.out.val.m[First.Name].m =
                    {URLString(Resolved(Candidates[i])) : i \in Good}

\* The request was redirected, so the response has another URL than the
\* request, and two relative links are followed with success.
C9_Witness ==
    /\ Following
    /\ call.out.resp.url # call.rules.URL
    /\ Len(Candidates) = 2
    /\ Failed = {}
    /\ \A i \in Good : ~IsAbs(ToURL(Candidates[i]).url)

(***************************************************************************)
(* C10, as stated: a non-All Follow selector performs exactly one nested   *)
(* Extract when it has a match and none when it has none, and an           *)
(* All+Follow selector performs exactly one nested Extract per matched     *)
(* child whose value is a URL.                                             *)
(***************************************************************************)
Follows == Queried /\ First.Follow

C10_OneExtractPerMatch ==
    Follows =>
        Cardinality(Issued) =
            IF First.All THEN Cardinality(Good)
            ELSE IF MatchesNothing THEN 0 ELSE 1

(***************************************************************************)
(* C10, amended: a Follow selector performs exactly one nested Extract per *)
(* value handed to followSelector when every one of them converts to a     *)
(* URL, and none when one of them does not.  A non-All selector hands over *)
(* the value of the element Find returns: none in HTML, XML and JSON when  *)
(* nothing matches, and in plain text the empty string, which resolves to  *)
(* the URL of the page itself.  An All selector hands over the value of    *)
(* every matched child.                                                    *)
(***************************************************************************)
C10_OneExtractPerCandidate ==
    Follows =>
        /\ Cardinality(Issued) = IF Bad = {} THEN Len(Candidates) ELSE 0
        /\ (~First.All /\ MatchesNothing) =>
              Candidates = IF Format = "text" THEN <<Str("")>> ELSE <<>>

\* Nothing matches on a text page, and the page itself is fetched again.
C10_Witness ==
    /\ Follows
    /\ ~First.All
    /\ MatchesNothing
    /\ Format = "text"
    /\ {Trace[k].arg : k \in Issued} = {URLString(call.out.resp.url)}

(***************************************************************************)
(* C11: when a selector has Follow set and nested selectors, the element   *)
(* of the current page is never queried for a nested selector; the nested  *)
(* selectors are the top-level selectors of every followed page, so each   *)
(* followed page that reaches the parser is queried for exactly them, in   *)
(* their order.                                                            *)
(***************************************************************************)
FollowsNested == Follows /\ First.Selectors # <<>>

NestedNames == [i \in DOMAIN First.Selectors |-> First.Selectors[i].Name]

\* The element queries of the trace, and those made on the current page.
Queries == {k \in DOMAIN Trace : Trace[k].op \in {"Find", "FindAll"}}
QueriesHere == {k \in Queries : Trace[k].depth = 1}

\* The last invocation made inside the nested Extract issued at k.
SpanEnd(k) ==
    CHOOSE j \in k..Len(Trace) :
        /\ \A i \in (k + 1)..j : Trace[i].depth >= 2
        /\ j < Len(Trace) => Trace[j + 1].depth < 2

\* The followed page of the nested Extract issued at k reached the parser.
ParsedAt(k) ==
    \E j \in (k + 1)..SpanEnd(k) : Trace[j].op = "Parse" /\ Trace[j].depth = 2

\* The names the top-level element of that followed page was queried for.
TopQueriesAt(k) ==
    LET span == SubSeq(Trace, k + 1, SpanEnd(k))
        top(e) == e.op \in {"Find", "FindAll"} /\ e.depth = 2
        asked == SelectSeq(span, top)
    IN  [i \in DOMAIN asked |-> asked[i].arg]

C11_NestedOnlyOnFollowedPage ==
    FollowsNested =>
        /\ \A k \in QueriesHere : Trace[k].arg \notin Range(NestedNames)
        /\ \A k \in Queries :
                Trace[k].arg \in Range(NestedNames) => Trace[k].depth = 2
        /\ \A k \in Issued : ParsedAt(k) => TopQueriesAt(k) = NestedNames

\* A non-All Follow selector with two nested selectors matches a link, and
\* the page it leads to is queried for both.
C11_Witness ==
    /\ FollowsNested
    /\ ~First.All
    /\ Len(NestedNames) = 2
    /\ \E k \in Issued : ParsedAt(k) /\ TopQueriesAt(k) = NestedNames

(***************************************************************************)
(* Rules and Selector instances in memory.  An instance, a header, a URL   *)
(* and a field bag each live at an address of the heap, so that two        *)
(* pointers to one of them see each other's writes; address 0 is nil.      *)
(*   heap           the objects allocated so far, by address               *)
(*   rulesPool      the Rules instances in rulesPool                       *)
(*   selectorPool   the Selector instances in selectorPool                 *)
(*   acquired       what every pool.Get of the running call returned       *)
(***************************************************************************)
NoRef == 0

\* A []*Selector: nil, or the addresses it holds.
NilSlice == [isnil |-> TRUE, at |-> <<>>]
Slice(at) == [isnil |-> FALSE, at |-> at]

\* append(slice, a).
SliceAppend(slice, a) == Slice(Append(slice.at, a))

NewMemory ==
    [heap |-> <<>>, rulesPool |-> {}, selectorPool |-> {}, acquired |-> <<>>]

\* The allocation of obj: the memory after it and the address of obj.
New(m, obj) == [m |-> [m EXCEPT !.heap = Append(@, obj)], at |-> Len(m.heap) + 1]

\* A *url.URL, an http.Header and a map[string]any.
URLObject(u) == [kind |-> "url", u |-> u]
HeaderObject(h) == [kind |-> "header", m |-> h]
FieldsObject(f) == [kind |-> "fields", m |-> f]

\* The values a field bag holds: v is a string, a number of milliseconds,
\* a boolean, or the address of a header or of a URL.
FieldValue(kind, v) == [kind |-> kind, v |-> v]

\* &Rules{...} and &Selector{...}.
RulesObject(method, url, proxy, header, timeout, useCookies, ignoreRobotsTxt, delay, selectors, fields) ==
    [kind |-> "rules", Method |-> method, URL |-> url, Proxy |-> proxy,
     Header |-> header, Timeout |-> timeout, UseCookies |-> useCookies,
     IgnoreRobotsTxt |-> ignoreRobotsTxt, Delay |-> delay,
     Selectors |-> selectors, Fields |-> fields]

SelectorObject(name, expr, type, all, follow, selectors, fields) ==
    [kind |-> "selector", Name |-> name, Expr |-> expr, Type |-> type,
     All |-> all, Follow |-> follow, Selectors |-> selectors, Fields |-> fields]

\* What ranging over the map at address f visits: nothing for a nil map.
Entries(m, f) == IF f = NoRef THEN <<>> ELSE m.heap[f].m

\* u.ResolveReference(&url.URL{}) for a non-nil u: a new URL.
URLCopy(m, u) ==
    IF u = NoRef THEN [m |-> m, at |-> NoRef]
    ELSE New(m, URLObject(ResolveReference(m.heap[u].u, URL("", "", ""))))

\* http.Header.Clone: nil for a nil header, else a new header.
Header_Clone(m, h) ==
    IF h = NoRef THEN [m |-> m, at |-> NoRef]
    ELSE New(m, HeaderObject(m.heap[h].m))

RECURSIVE Selector_Clone(_, _)
RECURSIVE CloneSelectorsFrom(_, _, _, _)

\* The turn of the loop of CloneSelectors once sel.Clone() has returned cl.
CloneSelectorsTurn(at, i, result, cl) ==
    CloneSelectorsFrom(cl.m, at, i + 1, SliceAppend(result, cl.at))

CloneSelectorsFrom(m, at, i, result) ==
    IF i > Len(at) THEN [m |-> m, slice |-> result]
    ELSE CloneSelectorsTurn(at, i, result, Selector_Clone(m, at[i]))

\* CloneSelectors: the result stays nil when there is nothing to clone.
Clone_Selectors(m, selectors) == CloneSelectorsFrom(m, selectors.at, 1, NilSlice)

\* make(map[string]any) filled with the entries of the map at f.
FieldsCopy(m, f) == New(m, FieldsObject(Entries(m, f)))

\* Selector.Clone once the nested selectors are cloned into kids.
Selector_CloneOf(selector, kids, f) ==
    New(f.m, [selector EXCEPT !.Selectors = kids.slice, !.Fields = f.at])

Selector_CloneInto(selector, kids) ==
    Selector_CloneOf(selector, kids, FieldsCopy(kids.m, selector.Fields))

Selector_Clone(m, a) ==
    Selector_CloneInto(m.heap[a], Clone_Selectors(m, m.heap[a].Selectors))

\* The header of the source is not cloned.
Rules_CloneShallow(rules, kids) ==
    LET u == URLCopy(kids.m, rules.URL)
        p == URLCopy(u.m, rules.Proxy)
        f == FieldsCopy(p.m, rules.Fields)
    IN  New(f.m, [rules EXCEPT !.URL = u.at, !.Proxy = p.at,
                               !.Selectors = kids.slice, !.Fields = f.at])

\* Rules.Clone once the nested selectors are cloned into kids.
Rules_CloneInto(rules, kids) ==
    LET h == Header_Clone(kids.m, rules.Header)
        u == URLCopy(h.m, rules.URL)
        p == URLCopy(u.m, rules.Proxy)
        f == FieldsCopy(p.m, rules.Fields)
    IN  New(f.m, [rules EXCEPT !.Header = h.at, !.URL = u.at, !.Proxy = p.at,
                               !.Selectors = kids.slice, !.Fields = f.at])

Rules_Clone(m, a) ==
    Rules_CloneInto(m.heap[a], Clone_Selectors(m, m.heap[a].Selectors))

\* The method of the source is inherited when the field bag has none.
Selector_RulesInherit(selector, src, kids) ==
    LET m == kids.m
        fields == Entries(m, selector.Fields)
        has(key) == key \in DOMAIN fields
        p == IF has("Proxy")
             THEN [m |-> m, at |-> AssertOr(fields, "Proxy", "url", NoRef)]
             ELSE URLCopy(m, src.Proxy)
        h == IF has("Header")
             THEN [m |-> p.m, at |-> AssertOr(fields, "Header", "hdr", NoRef)]
             ELSE Header_Clone(p.m, src.Header)
        f == New(h.m, FieldsObject(<<>>))
    IN  New(f.m,
            RulesObject(
                IF has("Method") THEN AssertOr(fields, "Method", "str", "")
                ELSE src.Method,
                NoRef, p.at, h.at,
                IF has("Timeout") THEN AssertOr(fields, "Timeout", "dur", 0)
                ELSE src.Timeout,
                IF has("UseCookies") THEN AssertOr(fields, "UseCookies", "bool", FALSE)
                ELSE src.UseCookies,
                IF has("IgnoreRobotsTxt")
                THEN AssertOr(fields, "IgnoreRobotsTxt", "bool", FALSE)
                ELSE src.IgnoreRobotsTxt,
                IF has("Delay") THEN AssertOr(fields, "Delay", "dur", 0) ELSE src.Delay,
                kids.slice, f.at))

\* Selector.Rules once the nested selectors are cloned into kids.  With an
\* empty field bag no key is present, which is the early return of the
\* code.
Selector_RulesInto(selector, src, kids) ==
    LET m == kids.m
        fields == Entries(m, selector.Fields)
        has(key) == key \in DOMAIN fields
        p == IF has("Proxy")
             THEN [m |-> m, at |-> AssertOr(fields, "Proxy", "url", NoRef)]
             ELSE URLCopy(m, src.Proxy)
        h == IF has("Header")
             THEN [m |-> p.m, at |-> AssertOr(fields, "Header", "hdr", NoRef)]
             ELSE Header_Clone(p.m, src.Header)
        f == New(h.m, FieldsObject(<<>>))
    IN  New(f.m,
            RulesObject(
                IF has("Method") THEN AssertOr(fields, "Method", "str", "") ELSE "",
                NoRef, p.at, h.at,
                IF has("Timeout") THEN AssertOr(fields, "Timeout", "dur", 0)
                ELSE src.Timeout,
                IF has("UseCookies") THEN AssertOr(fields, "UseCookies", "bool", FALSE)
                ELSE src.UseCookies,
                IF has("IgnoreRobotsTxt")
                THEN AssertOr(fields, "IgnoreRobotsTxt", "bool", FALSE)
                ELSE src.IgnoreRobotsTxt,
                IF has("Delay") THEN AssertOr(fields, "Delay", "dur", 0) ELSE src.Delay,
                kids.slice, f.at))

\* Selector.Rules(src).
Selector_Rules(m, a, src) ==
    Selector_RulesInto(m.heap[a], m.heap[src], Clone_Selectors(m, m.heap[a].Selectors))

\* clear(fields): the map at f is emptied in place; a nil map stays nil.
ClearFields(m, f) ==
    IF f = NoRef THEN m ELSE [m EXCEPT !.heap[f].m = <<>>]

RECURSIVE ReleaseSelector(_, _)
RECURSIVE ReleaseSelectorsFrom(_, _, _)

\* The loop of Clear over the nested selectors.
ReleaseSelectorsFrom(m, at, i) ==
    IF i > Len(at) THEN m
    ELSE ReleaseSelectorsFrom(ReleaseSelector(m, at[i]), at, i + 1)

\* Selector.Clear once the nested selectors are released in m.
Selector_Cleared(m, a) ==
    ClearFields(
        [m EXCEPT !.heap[a] =
            SelectorObject("", "", "", FALSE, FALSE, NilSlice, m.heap[a].Fields)],
        m.heap[a].Fields)

Selector_Clear(m, a) ==
    Selector_Cleared(ReleaseSelectorsFrom(m, m.heap[a].Selectors.at, 1), a)

\* selectorPool.Put(selector).
SelectorPoolPut(m, a) == [m EXCEPT !.selectorPool = @ \cup {a}]

ReleaseSelector(m, a) == SelectorPoolPut(Selector_Clear(m, a), a)

\* Rules.Clear once the nested selectors are released in m.
Rules_Cleared(m, a) ==
    ClearFields(
        [m EXCEPT !.heap[a] =
            RulesObject("", NoRef, NoRef, NoRef, 0, FALSE, FALSE, 0, NilSlice,
                        m.heap[a].Fields)],
        m.heap[a].Fields)

Rules_Clear(m, a) ==
    Rules_Cleared(ReleaseSelectorsFrom(m, m.heap[a].Selectors.at, 1), a)

\* rulesPool.Put(rules).
RulesPoolPut(m, a) == [m EXCEPT !.rulesPool = @ \cup {a}]

ReleaseRules(m, a) == RulesPoolPut(Rules_Clear(m, a), a)

(***************************************************************************)
(* reflect.DeepEqual on what an address points to: the value with every    *)
(* pointer followed, a nil map, slice or pointer told from an empty one.   *)
(***************************************************************************)
ViewURL(m, a) == IF a = NoRef THEN NilURL ELSE m.heap[a].u

ViewHeader(m, a) == IF a = NoRef THEN NilHeader ELSE Header(m.heap[a].m)

ViewValue(m, value) ==
    CASE value.kind = "url" -> FieldValue("url", ViewURL(m, value.v))
      [] value.kind = "hdr" -> FieldValue("hdr", ViewHeader(m, value.v))
      [] OTHER -> value

ViewFields(m, a) ==
    IF a = NoRef THEN [isnil |-> TRUE, m |-> <<>>]
    ELSE [isnil |-> FALSE,
          m |-> [k \in DOMAIN m.heap[a].m |-> ViewValue(m, m.heap[a].m[k])]]

RECURSIVE ViewSelector(_, _)
ViewSelectors(m, selectors) ==
    [isnil |-> selectors.isnil,
     items |-> [i \in DOMAIN selectors.at |-> ViewSelector(m, selectors.at[i])]]

ViewSelector(m, a) ==
    [m.heap[a] EXCEPT !.Selectors = ViewSelectors(m, @),
                      !.Fields = ViewFields(m, @)]

ViewRules(m, a) ==
    [m.heap[a] EXCEPT !.URL = ViewURL(m, @), !.Proxy = ViewURL(m, @),
                      !.Header = ViewHeader(m, @),
                      !.Selectors = ViewSelectors(m, @),
                      !.Fields = ViewFields(m, @)]

View(m, a) == IF m.heap[a].kind = "rules" THEN ViewRules(m, a) ELSE ViewSelector(m, a)

(***************************************************************************)
(* The pools.  Get returns an instance a Put left there or a new one from  *)
(* New; pick says which: "new", or the pooled instance with the lowest or  *)
(* the highest address.                                                    *)
(***************************************************************************)
Picks == {"new", "low", "high"}

PoolPick(pool, pick) ==
    IF pick = "new" \/ pool = {} THEN NoRef
    ELSE IF pick = "low" THEN CHOOSE a \in pool : \A b \in pool : a <= b
    ELSE CHOOSE a \in pool : \A b \in pool : a >= b

\* What Get returned is noted as it was when Get returned it.
Acquired(g) == [g EXCEPT !.m.acquired = Append(@, View(g.m, g.at))]

\* rulesPool.New and selectorPool.New.
RulesPoolNew(f) ==
    New(f.m, RulesObject("", NoRef, NoRef, NoRef, 0, FALSE, FALSE, 0, NilSlice, f.at))

SelectorPoolNew(f) ==
    New(f.m, SelectorObject("", "", "", FALSE, FALSE, NilSlice, f.at))

\* rulesPool.Get().
RulesPoolGet(m, pick) ==
    IF PoolPick(m.rulesPool, pick) = NoRef
    THEN Acquired(RulesPoolNew(New(m, FieldsObject(<<>>))))
    ELSE Acquired([m |-> [m EXCEPT !.rulesPool = @ \ {PoolPick(m.rulesPool, pick)}],
                   at |-> PoolPick(m.rulesPool, pick)])

\* selectorPool.Get().
SelectorPoolGet(m, pick) ==
    IF PoolPick(m.selectorPool, pick) = NoRef
    THEN Acquired(SelectorPoolNew(New(m, FieldsObject(<<>>))))
    ELSE Acquired([m |-> [m EXCEPT !.selectorPool = @ \ {PoolPick(m.selectorPool, pick)}],
                   at |-> PoolPick(m.selectorPool, pick)])

(***************************************************************************)
(* Raw input.  A raw value is nil, a string, a number, a boolean or a raw  *)
(* mapping; a raw mapping lists its keys in the order the range over it    *)
(* visits them.                                                            *)
(***************************************************************************)
RawMap(keys, vals) == [kind |-> "map", keys |-> keys, vals |-> vals]

ErrInvalidSelector == Error("invalid selector")
ErrInvalidSelectors == Error("invalid selectors")
ErrNotAssignable == Error("value is not assignable to field")
ErrMustBeConvBool == Error("must be a bool, string or number")
ErrMustBeConvDuration == Error("must be a string or number")
ErrInvalidHeader == Error("invalid header")
ErrSyntax == Error("invalid syntax")

\* The panic of reflect.Value.Type on the zero Value.
PanicZeroValue == "reflect: call of reflect.Value.Type on zero Value"

\* The number a raw number stands for.
NumberOf(raw) ==
    CASE raw.v = "0" -> 0
      [] raw.v = "1" -> 1
      [] raw.v = "123" -> 123
      [] OTHER -> 2011

\* toBool.
toBool(raw) ==
    CASE raw.kind = "nil" -> [val |-> FALSE, err |-> NilErr]
      [] raw.kind = "bool" -> [val |-> raw.v, err |-> NilErr]
      [] raw.kind = "num" -> [val |-> NumberOf(raw) # 0, err |-> NilErr]
      [] raw.kind = "str" ->
            IF raw.v \in {"true", "1"} THEN [val |-> TRUE, err |-> NilErr]
            ELSE IF raw.v \in {"false", "0"} THEN [val |-> FALSE, err |-> NilErr]
            ELSE [val |-> FALSE, err |-> ErrSyntax]
      [] OTHER -> [val |-> FALSE, err |-> ErrMustBeConvBool]

\* toDuration, in milliseconds.
toDuration(raw) ==
    CASE raw.kind = "nil" -> [val |-> 0, err |-> NilErr]
      [] raw.kind = "num" -> [val |-> NumberOf(raw), err |-> NilErr]
      [] raw.kind = "str" ->
            IF raw.v = "2s" THEN [val |-> 2000, err |-> NilErr]
            ELSE IF raw.v = "5s" THEN [val |-> 5000, err |-> NilErr]
            ELSE [val |-> 0, err |-> ErrSyntax]
      [] OTHER -> [val |-> 0, err |-> ErrMustBeConvDuration]

\* toHeader: the header of a raw mapping of strings.
toHeader(raw) ==
    CASE raw.kind = "nil" -> [val |-> <<>>, err |-> NilErr]
      [] raw.kind = "map" ->
            IF \A i \in DOMAIN raw.vals : raw.vals[i].kind = "str"
            THEN [val |-> [k \in Range(raw.keys) |->
                             raw.vals[CHOOSE i \in DOMAIN raw.keys : raw.keys[i] = k].v],
                  err |-> NilErr]
            ELSE [val |-> <<>>, err |-> ErrInvalidHeader]
      [] OTHER -> [val |-> <<>>, err |-> ErrInvalidHeader]

\* What a call returns that may panic: the memory after it, its value,
\* its error and the value of its panic.
Result(m, val, err, pan) == [m |-> m, val |-> val, err |-> err, pan |-> pan]

\* A converted value that is an object of its own.
Allocated(kind, n, err) == Result(n.m, FieldValue(kind, n.at), err, "")

RECURSIVE newSelectors(_, _, _)
RECURSIVE processRawFrom(_, _, _, _, _, _)

\* DefaultConvFunc(key, rawValue).
DefaultConvFunc(m, key, raw, pick) ==
    CASE key \in {"URL", "Proxy"} ->
            IF ToURL(raw).err # NilErr
            THEN Result(m, FieldValue("url", NoRef), ToURL(raw).err, "")
            ELSE Allocated("url", New(m, URLObject(ToURL(raw).url)), NilErr)
      [] key \in {"IgnoreRobotsTxt", "Follow", "UseCookies", "All"} ->
            Result(m, FieldValue("bool", toBool(raw).val), toBool(raw).err, "")
      [] key \in {"Delay", "Timeout"} ->
            Result(m, FieldValue("dur", toDuration(raw).val), toDuration(raw).err, "")
      [] key = "Header" ->
            Allocated("hdr", New(m, HeaderObject(toHeader(raw).val)), toHeader(raw).err)
      [] key = "Selectors" -> newSelectors(m, raw, pick)
      [] OTHER -> Result(m, raw, NilErr, "")

\* The type of the field called key of a Rules or of a Selector, "" when
\* it has no such field.
FieldType(kind, key) ==
    CASE key \in {"Name", "Expr", "Type"} /\ kind = "selector" -> "str"
      [] key \in {"All", "Follow"} /\ kind = "selector" -> "bool"
      [] key = "Method" /\ kind = "rules" -> "str"
      [] key \in {"URL", "Proxy"} /\ kind = "rules" -> "url"
      [] key = "Header" /\ kind = "rules" -> "hdr"
      [] key \in {"Timeout", "Delay"} /\ kind = "rules" -> "dur"
      [] key \in {"UseCookies", "IgnoreRobotsTxt"} /\ kind = "rules" -> "bool"
      [] key = "Selectors" -> "selectors"
      [] key = "Fields" -> "map"
      [] OTHER -> ""

\* The raw mapping as the value of a Fields field.
RawFields(raw) ==
    [k \in Range(raw.keys) |-> raw.vals[CHOOSE i \in DOMAIN raw.keys : raw.keys[i] = k]]

\* field.Set(rValue) for the field called key of the instance at a.
FieldSet(m, a, key, val) ==
    IF key = "Fields"
    THEN [New(m, FieldsObject(RawFields(val))).m EXCEPT !.heap[a].Fields = Len(m.heap) + 1]
    ELSE [m EXCEPT !.heap[a][key] = val.v]

\* The instance at a has a field bag: a nil one is made.
WithFields(m, a) ==
    IF m.heap[a].Fields # NoRef THEN m
    ELSE [New(m, FieldsObject(<<>>)).m EXCEPT !.heap[a].Fields = Len(m.heap) + 1]

\* field.SetMapIndex(key, rValue) on the field bag of the instance at a:
\* the zero Value of a nil interface deletes the key.
SetMapIndex(m, a, key, val) ==
    LET f == m.heap[a].Fields
    IN  IF val.kind = "nil"
        THEN [m EXCEPT !.heap[f].m = [k \in DOMAIN @ \ {key} |-> @[k]]]
        ELSE [m EXCEPT !.heap[f].m = (key :> val) @@ @]

\* The turn of the loop of processRaw for raw.keys[i] once convFunc has
\* returned cv.
processRawTurn(a, raw, i, errs, pick, cv) ==
    LET key == raw.keys[i]
        type == FieldType(cv.m.heap[a].kind, key)
    IN  IF cv.pan # "" THEN Result(cv.m, Nil, errs, cv.pan)
        ELSE IF cv.err # NilErr
        THEN processRawFrom(cv.m, a, raw, i + 1, AddError(errs, key, cv.err), pick)
        ELSE IF type = ""
        THEN processRawFrom(SetMapIndex(WithFields(cv.m, a), a, key, cv.val),
                            a, raw, i + 1, errs, pick)
        ELSE IF cv.val.kind = "nil" THEN Result(cv.m, Nil, errs, PanicZeroValue)
        ELSE IF cv.val.kind = type
        THEN processRawFrom(FieldSet(cv.m, a, key, cv.val), a, raw, i + 1, errs, pick)
        ELSE processRawFrom(cv.m, a, raw, i + 1,
                            AddError(errs, key, ErrNotAssignable), pick)

processRawFrom(m, a, raw, i, errs, pick) ==
    IF i > Len(raw.keys) THEN Result(m, Nil, errs, "")
    ELSE processRawTurn(a, raw, i, errs, pick,
                        DefaultConvFunc(m, raw.keys[i], raw.vals[i], pick))

\* processRaw(raw, output, DefaultConvFunc) for the instance at a.
processRaw(m, raw, a, pick) ==
    IF raw.kind = "nil" THEN Result(m, Nil, NilErr, "")
    ELSE processRawFrom(m, a, raw, 1, NilErr, pick)

\* delete(selectorValue, KeyName).
WithoutName(raw) ==
    LET keep == SelectSeq([i \in DOMAIN raw.keys |-> i],
                          LAMBDA i : raw.keys[i] # "Name")
    IN  RawMap([j \in DOMAIN keep |-> raw.keys[keep[j]]],
               [j \in DOMAIN keep |-> raw.vals[keep[j]]])

\* newSelector once processRaw has returned r for the selector at a.
newSelectorNamed(a, name, r) ==
    IF r.pan # "" THEN r
    ELSE Result([r.m EXCEPT !.heap[a].Name = name], a, r.err, "")

\* newSelector once the pool has returned g.
newSelectorGot(g, name, raw, pick) ==
    CASE raw.kind = "str" ->
            IF raw.v = "" THEN Result(g.m, NoRef, NilErr, "")
            ELSE Result([g.m EXCEPT !.heap[g.at].Expr = raw.v,
                                    !.heap[g.at].Name = name], g.at, NilErr, "")
      [] raw.kind = "map" ->
            newSelectorNamed(g.at, name, processRaw(g.m, WithoutName(raw), g.at, pick))
      [] OTHER -> Result(g.m, NoRef, ErrInvalidSelector, "")

\* newSelector(name, rawSelector, DefaultConvFunc).
newSelector(m, name, raw, pick) ==
    newSelectorGot(SelectorPoolGet(m, pick), name, raw, pick)

RECURSIVE newSelectorsFrom(_, _, _, _, _, _)

\* The turn of the loop of newSelectors once newSelector has returned r.
newSelectorsTurn(raw, i, selectors, errs, pick, r) ==
    IF r.pan # "" THEN Result(r.m, FieldValue("selectors", NilSlice), errs, r.pan)
    ELSE IF r.err # NilErr
    THEN newSelectorsFrom(r.m, raw, i + 1, selectors,
                          AddError(errs, raw.keys[i], r.err), pick)
    ELSE IF r.val # NoRef
    THEN newSelectorsFrom(r.m, raw, i + 1, SliceAppend(selectors, r.val), errs, pick)
    ELSE newSelectorsFrom(r.m, raw, i + 1, selectors, errs, pick)

newSelectorsFrom(m, raw, i, selectors, errs, pick) ==
    IF i > Len(raw.keys) THEN Result(m, FieldValue("selectors", selectors), errs, "")
    ELSE IF raw.keys[i] = "" \/ raw.vals[i].kind = "nil"
    THEN newSelectorsFrom(m, raw, i + 1, selectors, errs, pick)
    ELSE newSelectorsTurn(raw, i, selectors, errs, pick,
                          newSelector(m, raw.keys[i], raw.vals[i], pick))

\* newSelectors(rawSelectors, DefaultConvFunc).
newSelectors(m, raw, pick) ==
    CASE raw.kind = "nil" -> Result(m, FieldValue("selectors", NilSlice), NilErr, "")
      [] raw.kind = "map" -> newSelectorsFrom(m, raw, 1, Slice(<<>>), NilErr, pick)
      [] OTHER -> Result(m, FieldValue("selectors", NilSlice), ErrInvalidSelectors, "")

\* NewRules once the pool has returned g and processRaw r.
NewRulesGot(g, r) == Result(r.m, g.at, r.err, r.pan)

NewRulesWith(g, raw, pick) == NewRulesGot(g, processRaw(g.m, raw, g.at, pick))

\* NewRules(rawRules).
NewRules(m, raw, pick) == NewRulesWith(RulesPoolGet(m, pick), raw, pick)

(***************************************************************************)
(* The callers of the Rules and Selector model: they build instances from  *)
(* raw input or as literals, write to their field bags, clone them, derive *)
(* the Rules of a followed selector, change what they hold and release it. *)
(*   st.m       the memory                                                 *)
(*   st.held    the instances the callers hold and have not released       *)
(*   st.steps   the calls made since the memory was last collected         *)
(*   call       the call in progress: for Clone and Selector.Rules the     *)
(*              source, the result, what both looked like when the call    *)
(*              returned, and which of them has been written to since      *)
(***************************************************************************)
MaxSteps == 3

\* The writes the callers make to what a Clone or a Selector.Rules call
\* returned or was given.
MaxWrites == 1

RawAccept == RawMap(<<"Accept">>, <<Str("application/xml")>>)

RawFollow ==
    RawMap(<<"Expr", "Follow", "Header", "Proxy", "Selectors">>,
           <<Str("links"), Bool(TRUE), RawAccept, Str("https://x.test/p"),
             RawMap(<<"title">>, <<Str("title")>>)>>)

RawOverride ==
    RawMap(<<"Expr", "Follow", "Method", "Timeout", "UseCookies", "IgnoreRobotsTxt",
             "Delay", "Name">>,
           <<Str("links"), Num("1"), Str("POST"), Str("5s"), Str("true"), Bool(FALSE),
             Num("123"), Str("dropped")>>)

\* The raw mappings NewRules is given.
RawRules ==
    {Nil,
     RawMap(<<"Method", "URL", "Header", "Timeout", "IgnoreRobotsTxt", "Selectors",
              "token">>,
            <<Str("GET"), Str("https://h.test/x/../p"),
              RawMap(<<"User-Agent">>, <<Str("test/0.1")>>), Str("2s"), Bool(TRUE),
              RawMap(<<"next">>, <<RawFollow>>), Str("T456")>>),
     RawMap(<<"URL", "Proxy", "Delay", "Selectors">>,
            <<Str("https://h.test/p"), Str("p"), Num("1"),
              RawMap(<<"", "body">>, <<Str("title"), Nil>>)>>),
     RawMap(<<"URL", "Delay", "Method", "Selectors">>,
            <<Num("2011"), Str("soon"), Num("1"),
              RawMap(<<"title", "bad">>, <<Str("title"), Bool(TRUE)>>)>>)}

\* The names and raw values newSelector is given.
RawSelectors ==
    {[name |-> "next", raw |-> RawFollow],
     [name |-> "over", raw |-> RawOverride],
     [name |-> "odd", raw |-> RawMap(<<"Expr", "Method">>, <<Str("links"), Num("1")>>)],
     [name |-> "title", raw |-> Str("title")],
     [name |-> "media", raw |-> Str("")],
     [name |-> "bad", raw |-> Bool(TRUE)]}

\* What the callers write under a key of a field bag.
Written ==
    {[key |-> "Timeout", val |-> FieldValue("str", "10s")],
     [key |-> "Method", val |-> FieldValue("str", "PUT")],
     [key |-> "Header", val |-> FieldValue("str", "none")]}

InitRules ==
    /\ c = EngineColibri
    /\ st = [m |-> NewMemory, held |-> {}, steps |-> 0]
    /\ call = Idle

\* A call starts: there is a step left, and the record of what the pools
\* returned starts empty.
Starts == call = Idle /\ st.steps < MaxSteps

Before == [st.m EXCEPT !.acquired = <<>>]

KindOf(a) == st.m.heap[a].kind

\* The caller holds what the call returned, if it returned an instance.
Holding(r) ==
    IF r.pan = "" /\ r.val # NoRef THEN st.held \cup {r.val} ELSE st.held

\* NewRules(raw).
CallNewRules(raw, pick) ==
    /\ Starts
    /\ LET r == NewRules(Before, raw, pick)
       IN  /\ st' = [m |-> r.m, held |-> Holding(r), steps |-> st.steps + 1]
           /\ call' = [op |-> "NewRules", got |-> r.val, err |-> r.err, pan |-> r.pan]
    /\ UNCHANGED c

\* newSelector(name, raw, DefaultConvFunc).
CallNewSelector(name, raw, pick) ==
    /\ Starts
    /\ LET r == newSelector(Before, name, raw, pick)
       IN  /\ st' = [m |-> r.m, held |-> Holding(r), steps |-> st.steps + 1]
           /\ call' = [op |-> "newSelector", got |-> r.val, err |-> r.err,
                       pan |-> r.pan]
    /\ UNCHANGED c

\* &Rules{} and &Selector{}: an instance that comes from no pool and has
\* a nil field bag.
Literal(kind) ==
    /\ Starts
    /\ LET n == New(Before,
                    IF kind = "rules"
                    THEN RulesObject("", NoRef, NoRef, NoRef, 0, FALSE, FALSE, 0,
                                     NilSlice, NoRef)
                    ELSE SelectorObject("", "", "", FALSE, FALSE, NilSlice, NoRef))
       IN  /\ st' = [m |-> n.m, held |-> st.held \cup {n.at}, steps |-> st.steps + 1]
           /\ call' = [op |-> "Literal", got |-> n.at]
    /\ UNCHANGED c

\* selector.Fields[key] = val on the selector newSelector has returned.
SetField(key, val) ==
    /\ call # Idle
    /\ call.op = "newSelector"
    /\ call.got \in st.held
    /\ st' = [st EXCEPT !.m = SetMapIndex(@, call.got, key, val)]
    /\ call' = [call EXCEPT !.op = "SetField"]
    /\ UNCHANGED c

\* What a call that derives got from src (and, for Selector.Rules, from
\* selector) leaves for the callers to look at.
Derived(op, m, src, selector, got) ==
    [op |-> op, src |-> src, selector |-> selector, got |-> got,
     views |-> [src |-> View(m, src), selector |-> View(m, selector),
                got |-> View(m, got)],
     touched |-> "none", through |-> FALSE, writes |-> 0]

\* rules.Clone() and selector.Clone().
CallClone(a) ==
    /\ Starts
    /\ a \in st.held
    /\ LET n == IF KindOf(a) = "rules" THEN Rules_Clone(Before, a)
                ELSE Selector_Clone(Before, a)
       IN  /\ st' = [m |-> n.m, held |-> st.held \cup {n.at}, steps |-> st.steps + 1]
           /\ call' = Derived("Clone", n.m, a, a, n.at)
    /\ UNCHANGED c

\* selector.Rules(src).
CallSelectorRules(a, src) ==
    /\ Starts
    /\ a \in st.held /\ KindOf(a) = "selector"
    /\ src \in st.held /\ KindOf(src) = "rules"
    /\ LET n == Selector_Rules(Before, a, src)
       IN  /\ st' = [m |-> n.m, held |-> st.held \cup {n.at}, steps |-> st.steps + 1]
           /\ call' = Derived("Rules", n.m, src, a, n.at)
    /\ UNCHANGED c

\* ReleaseRules(rules) and ReleaseSelector(selector) on a held instance,
\* which the callers do not use again.
Released(m, a) ==
    IF m.heap[a].kind = "rules" THEN ReleaseRules(m, a) ELSE ReleaseSelector(m, a)

CallRelease(a) ==
    /\ Starts
    /\ a \in st.held
    /\ st' = [m |-> Released(Before, a), held |-> st.held \ {a}, steps |-> st.steps + 1]
    /\ call' = [op |-> "Release", got |-> a]
    /\ UNCHANGED c

\* The places of an instance the callers write to.
Writes ==
    {"Header", "URL", "Proxy", "Fields", "Nested", "NestedFields", "Deep",
     "HeldHeader", "HeldProxy", "NestedHeldHeader", "Release"}

\* The places that are values held in a field bag.
HeldPlaces == {"HeldHeader", "HeldProxy", "NestedHeldHeader"}

\* The first nested selector of the instance at a, 0 when it has none.
NestedOf(m, a) ==
    IF a = NoRef \/ m.heap[a].Selectors.at = <<>> THEN NoRef
    ELSE m.heap[a].Selectors.at[1]

\* The object under key in the field bag of the instance at a when it is
\* of that kind, 0 otherwise.
HeldAt(m, a, key, kind) ==
    IF m.heap[a].Fields = NoRef THEN NoRef
    ELSE IF key \notin DOMAIN m.heap[m.heap[a].Fields].m THEN NoRef
    ELSE IF m.heap[m.heap[a].Fields].m[key].kind # kind THEN NoRef
    ELSE m.heap[m.heap[a].Fields].m[key].v

\* The object a write to that place of the instance at a changes.
Place(m, a, where) ==
    CASE where \in {"Header", "URL", "Proxy"} ->
            IF m.heap[a].kind = "rules" THEN m.heap[a][where] ELSE NoRef
      [] where = "Fields" -> m.heap[a].Fields
      [] where = "Nested" -> NestedOf(m, a)
      [] where = "NestedFields" ->
            IF NestedOf(m, a) = NoRef THEN NoRef ELSE m.heap[NestedOf(m, a)].Fields
      [] where = "Deep" -> NestedOf(m, NestedOf(m, a))
      [] where = "HeldHeader" -> HeldAt(m, a, "Header", "hdr")
      [] where = "HeldProxy" -> HeldAt(m, a, "Proxy", "url")
      [] where = "NestedHeldHeader" ->
            IF NestedOf(m, a) = NoRef THEN NoRef
            ELSE HeldAt(m, NestedOf(m, a), "Header", "hdr")
      [] OTHER -> a

\* The write: Header.Set, a new path of a URL, a new entry of a field bag,
\* a new expression of a nested selector.
Write(m, at) ==
    CASE m.heap[at].kind = "header" -> [m EXCEPT !.heap[at].m = ("X-Written" :> "1") @@ @]
      [] m.heap[at].kind = "url" -> [m EXCEPT !.heap[at].u.path = "/written"]
      [] m.heap[at].kind = "fields" ->
            [m EXCEPT !.heap[at].m = ("written" :> FieldValue("str", "1")) @@ @]
      [] OTHER -> [m EXCEPT !.heap[at].Expr = "written"]

\* The callers write to the result of the call in progress, or to what it
\* was derived from, or release it; they write to one of them only.
Change(side, where) ==
    /\ call # Idle
    /\ call.op \in {"Clone", "Rules"}
    /\ call.touched \in {"none", side}
    /\ call.writes < MaxWrites
    /\ call[side] \in st.held
    /\ Place(st.m, call[side], where) # NoRef
    /\ st' = IF where = "Release"
             THEN [st EXCEPT !.m = Released(@, call[side]),
                             !.held = @ \ {call[side]}]
             ELSE [st EXCEPT !.m = Write(@, Place(@, call[side], where))]
    /\ call' = [call EXCEPT
                    !.touched = side,
                    !.writes = @ + 1,
                    !.through = @ \/ where \in HeldPlaces]
    /\ UNCHANGED c

\* The callers drop what they hold, and a garbage collection empties the
\* pools.
Collect ==
    /\ call = Idle
    /\ st.steps > 0
    /\ st' = [m |-> NewMemory, held |-> {}, steps |-> 0]
    /\ UNCHANGED <<c, call>>

NextRules ==
    \/ \E raw \in RawRules, pick \in Picks : CallNewRules(raw, pick)
    \/ \E s \in RawSelectors, pick \in Picks : CallNewSelector(s.name, s.raw, pick)
    \/ \E kind \in {"rules", "selector"} : Literal(kind)
    \/ \E w \in Written : SetField(w.key, w.val)
    \/ \E a \in st.held : CallClone(a)
    \/ \E a \in st.held, src \in st.held : CallSelectorRules(a, src)
    \/ \E a \in st.held : CallRelease(a)
    \/ \E side \in {"got", "src", "selector"}, where \in Writes : Change(side, where)
    \/ Return
    \/ Collect

SpecRules == InitRules /\ [][NextRules]_vars

(***************************************************************************)
(* What a finished Selector.Rules or Clone shows: the Rules or Selector it *)
(* was derived from and its result, as they were when it returned.         *)
(***************************************************************************)
RulesCalled == call # Idle /\ call.op = "Rules"

Source == call.views.src
Got == call.views.got

\* The field bag of the selector, empty when it is nil.
Bag == call.views.selector.Fields.m

RequestKeys ==
    {"Method", "Proxy", "Header", "Timeout", "UseCookies", "IgnoreRobotsTxt", "Delay"}

\* The value under key has the type of the field of that name.
Typed(key) == Bag[key].kind = FieldType("rules", key)

ZeroOf(key) ==
    CASE key = "Method" -> ""
      [] key = "Proxy" -> NilURL
      [] key = "Header" -> NilHeader
      [] key \in {"Timeout", "Delay"} -> 0
      [] OTHER -> FALSE

\* The URL a copy of u made with ResolveReference holds.
CopyOf(u) == IF u = NilURL THEN NilURL ELSE ResolveReference(u, URL("", "", ""))

C13_ResultSharesNothing ==
    (RulesCalled /\ call.touched = "got") =>
        /\ View(st.m, call.src) = Source
        /\ View(st.m, call.selector) = call.views.selector

(***************************************************************************)
(* Clone.                                                                  *)
(***************************************************************************)
Cloned == call # Idle /\ call.op = "Clone"

\* What Clone makes of a field bag, of a selector list and of a URL: a nil
\* bag becomes an empty one, an empty list a nil one, and a URL is
\* resolved.
RECURSIVE CloneOfSelector(_)
CloneOfSelectors(selectors) ==
    [isnil |-> selectors.items = <<>>,
     items |-> [i \in DOMAIN selectors.items |-> CloneOfSelector(selectors.items[i])]]

CloneOfSelector(v) ==
    [v EXCEPT !.Selectors = CloneOfSelectors(@), !.Fields.isnil = FALSE]

CloneOfView(v) ==
    IF v.kind = "selector" THEN CloneOfSelector(v)
    ELSE [v EXCEPT !.URL = CopyOf(@), !.Proxy = CopyOf(@),
                   !.Selectors = CloneOfSelectors(@), !.Fields.isnil = FALSE]

(***************************************************************************)
(* C14, as stated: Clone returns a value deep-equal to its source, and no  *)
(* later write to the clone or release of it changes the source, nor the   *)
(* other way round.                                                        *)
(***************************************************************************)
C14_CloneEqualAndIndependent ==
    Cloned =>
        /\ Got = Source
        /\ call.touched = "got" => View(st.m, call.src) = Source
        /\ call.touched = "src" => View(st.m, call.got) = Got

(***************************************************************************)
(* C14, amended: the clone equals its source with every nil field bag made *)
(* empty, every empty selector list made nil and the URLs resolved, so it  *)
(* is deep-equal to a source that has none of these; a write to the        *)
(* Header, URL, Proxy, field bag or nested selectors of one of them, or    *)
(* its release, leaves the other unchanged, but a header or URL held as a  *)
(* value in a field bag is shared: both bags hold the same object.         *)
(***************************************************************************)
C14_CloneIndependent ==
    Cloned =>
        /\ Got = CloneOfView(Source)
        /\ (call.touched = "got" /\ ~call.through) => View(st.m, call.src) = Source
        /\ (call.touched = "src" /\ ~call.through) => View(st.m, call.got) = Got
        /\ call.touched = "none" =>
              \A where \in HeldPlaces :
                  Place(st.m, call.got, where) = Place(st.m, call.src, where)

\* A Rules with a header, a URL and a followed selector is cloned, the
\* clone differs from it, and a write to the header of the clone shows in
\* the clone only.
C14_Witness ==
    /\ Cloned
    /\ Source.kind = "rules"
    /\ Source.Header # NilHeader
    /\ Source.Selectors.items # <<>>
    /\ Got # Source
    /\ call.touched = "got"
    /\ ~call.through
    /\ View(st.m, call.got).Header # Got.Header

(***************************************************************************)
(* C15: every instance a pool returns equals a never-used pooled instance: *)
(* all scalar fields zero, nil Header, URL and Proxy, no Selectors, and an *)
(* empty field bag that is not nil.                                        *)
(***************************************************************************)
EmptyBag == [isnil |-> FALSE, m |-> <<>>]

NeverUsedRules ==
    RulesObject("", NilURL, NilURL, NilHeader, 0, FALSE, FALSE, 0,
                [isnil |-> TRUE, items |-> <<>>], EmptyBag)

NeverUsedSelector ==
    SelectorObject("", "", "", FALSE, FALSE, [isnil |-> TRUE, items |-> <<>>], EmptyBag)

C15_AcquiredAreNeverUsed ==
    \A i \in DOMAIN st.m.acquired :
        \/ st.m.acquired[i] = NeverUsedRules
        \/ st.m.acquired[i] = NeverUsedSelector

(***************************************************************************)
(* The validation of a finished Do or Extract of the callers.              *)
(***************************************************************************)
DoCalled == call # Idle /\ call.op = "Do"
ExtractCalled == call # Idle /\ call.op = "Extract"

\* The collaborator invocations during the call.
Invoked ==
    {k \in DOMAIN Trace :
        Trace[k].op \in {"IsAllowed", "Wait", "ClientDo", "Stamp", "Done", "Parse"}}

(***************************************************************************)
(* C16: Do returns ErrClientIsNil when no Client is configured, also when  *)
(* rules is nil, and ErrRulesIsNil when a Client is configured and rules   *)
(* is nil; the response is nil and no collaborator is invoked.             *)
(***************************************************************************)
C16_ClientThenRules ==
    DoCalled =>
        /\ c.client = "none" =>
              /\ call.out.err = ErrClientIsNil
              /\ call.out.resp = NilResp
              /\ Invoked = {}
              /\ call.out.st.agents = <<>>
        /\ (c.client # "none" /\ call.rules = NilRules) =>
              /\ call.out.err = ErrRulesIsNil
              /\ call.out.resp = NilResp
              /\ Invoked = {}
              /\ call.out.st.agents = <<>>

\* Do is called with nil rules on a Colibri that has no Client but has the
\* other collaborators.
C16_Witness ==
    /\ DoCalled
    /\ c.client = "none"
    /\ c.robots # "none"
    /\ c.delay # "none"
    /\ call.rules = NilRules
    /\ call.out.err = ErrClientIsNil

(***************************************************************************)
(* C17: Extract returns ErrParserIsNil with a nil response and nil output  *)
(* whenever no Parser is configured, also when there is no Client or rules *)
(* is nil, and no collaborator is invoked.                                 *)
(***************************************************************************)
C17_ParserFirst ==
    (ExtractCalled /\ c.parser = "none") =>
        /\ call.out.err = ErrParserIsNil
        /\ call.out.resp = NilResp
        /\ call.out.val = Nil
        /\ Invoked = {}
        /\ call.out.st.agents = <<>>
        /\ call.out.rules = call.rules

\* Extract is called with nil rules on a Colibri that has neither Parser
\* nor Client.
C17_Witness ==
    /\ ExtractCalled
    /\ c.parser = "none"
    /\ c.client = "none"
    /\ call.rules = NilRules
    /\ call.out.err = ErrParserIsNil

(***************************************************************************)
(* The User-Agent of a finished Do that passed validation.                 *)
(***************************************************************************)
Validated == DoCalled /\ c.client # "none" /\ call.rules # NilRules

\* The User-Agent the caller passed, empty when there is none, and the
\* one the rules must have after the call.
GivenAgent == HeaderGet(call.rules.Header, "User-Agent")
WantAgent == IF TrimSpace(GivenAgent) = "" THEN DefaultUserAgent ELSE GivenAgent

\* The entries of a header other than its User-Agent.
OtherEntries(h) ==
    IF h = NilHeader THEN <<>>
    ELSE [name \in DOMAIN h.m \ {"User-Agent"} |-> h.m[name]]

(***************************************************************************)
(* C18: after a Do that passes validation, rules.Header is not nil and its *)
(* User-Agent is DefaultUserAgent if it was absent or blank before the     *)
(* call and is unchanged otherwise, and RobotsTxt.IsAllowed and            *)
(* HTTPClient.Do are handed rules that have it already.                    *)
(***************************************************************************)
C18_UserAgentDefaulted ==
    Validated =>
        /\ call.out.rules.Header # NilHeader
        /\ HeaderGet(call.out.rules.Header, "User-Agent") = WantAgent
        /\ OtherEntries(call.out.rules.Header) = OtherEntries(call.rules.Header)
        /\ \A k \in DOMAIN call.out.st.agents : call.out.st.agents[k] = WantAgent

\* A blank User-Agent is passed, and the robots gate and the transport
\* are handed the default one.
C18_Witness ==
    /\ Validated
    /\ GivenAgent = "   "
    /\ c.robots = "stub"
    /\ Len(call.out.st.agents) = 2
    /\ call.out.st.agents[1] = DefaultUserAgent
    /\ \E k \in DOMAIN Trace : Trace[k].op = "IsAllowed"
    /\ \E k \in DOMAIN Trace : Trace[k].op = "ClientDo"
    /\ HeaderGet(call.out.rules.Header, "User-Agent") = DefaultUserAgent

(***************************************************************************)
(* The robots gate and the pacing gate of a finished Do.  The invocations  *)
(* Do makes itself are those outside every IsAllowed.                      *)
(***************************************************************************)
Own(op) == {k \in DOMAIN Trace : Trace[k].op = op /\ Trace[k].gate = 0}

GateConfigured == c.robots # "none" /\ ~call.rules.IgnoreRobotsTxt

Target == URLArg(call.rules.URL)

(***************************************************************************)
(* C19, as stated: in Do, RobotsTxt.IsAllowed is invoked iff a RobotsTxt   *)
(* collaborator is configured and rules.IgnoreRobotsTxt is false, and with *)
(* IgnoreRobotsTxt true the request reaches the transport.                 *)
(***************************************************************************)
C19_GateIffConfigured ==
    (DoCalled /\ call.rules # NilRules) =>
        /\ Own("IsAllowed") # {} <=> GateConfigured
        /\ call.rules.IgnoreRobotsTxt => Own("ClientDo") # {}

(***************************************************************************)
(* C19, amended: in a Do that passes validation, IsAllowed is invoked,     *)
(* once and for the URL of rules, iff a RobotsTxt collaborator is          *)
(* configured and rules.IgnoreRobotsTxt is false; a Do that fails          *)
(* validation does not invoke it.  With IgnoreRobotsTxt true the request   *)
(* reaches the transport, whatever the robots policy says of its path,     *)
(* unless Delay.Wait panics first.                                         *)
(***************************************************************************)
C19_GateIffConfiguredAndValid ==
    DoCalled =>
        /\ Own("IsAllowed") # {} <=> (Validated /\ GateConfigured)
        /\ Cardinality(Own("IsAllowed")) <= 1
        /\ \A k \in Own("IsAllowed") : Trace[k].arg = Target /\ k = 1
        /\ (Validated /\ call.rules.IgnoreRobotsTxt) =>
              /\ \A k \in DOMAIN Trace : Trace[k].op # "IsAllowed"
              /\ Own("ClientDo") = {} <=>
                    (c.delay # "none" /\ call.rules.Delay > 0 /\ Faulty(c, "Wait"))
              /\ \A k \in Own("ClientDo") : Trace[k].arg = Target

\* RobotsData is configured and disallows the path, the rules ignore
\* robots.txt, and the transport is reached.
C19_Witness ==
    /\ Validated
    /\ c.robots = "data"
    /\ call.rules.IgnoreRobotsTxt
    /\ call.rules.URL.path \in RobotsDisallow(call.rules.URL.host)
    /\ Own("ClientDo") # {}
    /\ call.out.err = NilErr
    /\ call.out.resp # NilResp

\* The Wait and Done invocations made with g IsAllowed calls on the stack,
\* in order.
Pacing(g) == SelectSeq(Trace, LAMBDA e : e.gate = g /\ e.op \in {"Wait", "Done"})

\* Wait and Done for the same URL, one after the other.
Paired(s) == Len(s) = 2 /\ s[1].op = "Wait" /\ s[2].op = "Done" /\ s[2].arg = s[1].arg

\* A Wait that did not return.
Lone(s) == Len(s) = 1 /\ s[1].op = "Wait" /\ Faulty(c, "Wait")

\* The robots gate let the Do through.
GatePassed == ~GateConfigured \/ (Gate.pan = "" /\ Gate.err = NilErr)

\* The Do reaches its pacing gate with a pacer and a positive delay.
Waits == Validated /\ c.delay # "none" /\ call.rules.Delay > 0 /\ GatePassed

(***************************************************************************)
(* C20, as stated: in Do, Delay.Wait(rules.URL, rules.Delay) is called iff *)
(* a Delay is configured and rules.Delay > 0, every such Wait is followed  *)
(* by exactly one Delay.Done(rules.URL) before Do returns, and Done is     *)
(* never called without a preceding Wait.                                  *)
(***************************************************************************)
C20_WaitIffDelay ==
    (DoCalled /\ call.rules # NilRules) =>
        /\ Own("Wait") # {} <=> (c.delay # "none" /\ call.rules.Delay > 0)
        /\ Pacing(0) = <<>> \/ Paired(Pacing(0))

(***************************************************************************)
(* C20, amended: Do calls Delay.Wait(rules.URL, rules.Delay) iff it passes *)
(* validation, the robots gate lets it through, a Delay is configured and  *)
(* rules.Delay > 0.  A Wait that returns is followed by exactly one        *)
(* Delay.Done(rules.URL), the last invocation before Do returns, also when *)
(* the transport returns an error or panics; a Wait that panics is         *)
(* followed by none.  Done is never called without a preceding Wait.  The  *)
(* same holds of the Do that RobotsData runs for robots.txt inside         *)
(* IsAllowed.                                                              *)
(***************************************************************************)
C20_WaitIffDelayAndReached ==
    DoCalled =>
        /\ Own("Wait") # {} <=> Waits
        /\ \A k \in Own("Wait") : Trace[k].arg = Target
        /\ Pacing(0) = <<>> \/ Paired(Pacing(0)) \/ Lone(Pacing(0))
        /\ Paired(Pacing(0)) => Trace[Len(Trace)] = Pacing(0)[2]
        /\ (Waits /\ ~Faulty(c, "Wait")) => Paired(Pacing(0))
        /\ Pacing(1) = <<>> \/ Paired(Pacing(1)) \/ Lone(Pacing(1))

\* The transport panics after a Wait, and Done is called all the same.
C20_Witness ==
    /\ Waits
    /\ Faulty(c, "ClientDo")
    /\ Paired(Pacing(0))
    /\ Own("ClientDo") # {}
    /\ call.out.err = Error(PanicValue)

(***************************************************************************)
(* The stamp of a finished Do.                                             *)
(***************************************************************************)
\* What the transport answers to the request of the call.
Answer == Fetch(call.rules.URL)

\* The transport was called by the Do itself and returned a response.
Responded ==
    /\ Own("ClientDo") # {}
    /\ ~Faulty(c, "ClientDo")
    /\ Answer.resp # NilResp

(***************************************************************************)
(* C21: in Do, when a Delay is configured and the transport returns a      *)
(* response, Delay.Stamp is called exactly once, with the URL of the       *)
(* response, whether or not rules.Delay is positive, after HTTPClient.Do   *)
(* and before Delay.Done; it is never called when the transport returns no *)
(* response.                                                               *)
(***************************************************************************)
C21_StampOnResponse ==
    DoCalled =>
        /\ Own("Stamp") # {} <=> (c.delay # "none" /\ Responded)
        /\ Cardinality(Own("Stamp")) <= 1
        /\ \A k \in Own("Stamp") :
              /\ Trace[k].arg = URLArg(Answer.resp.url)
              /\ \A d \in Own("ClientDo") : d < k
              /\ \A d \in Own("Done") : k < d

\* A redirected request with a positive delay: the stamp is for the URL
\* of the response, between the transport and Done.
C21_Witness ==
    /\ Validated
    /\ call.rules.Delay > 0
    /\ Own("Stamp") # {}
    /\ Own("Done") # {}
    /\ \A k \in Own("Stamp") : Trace[k].arg # Target
    /\ call.out.err = NilErr

(***************************************************************************)
(* The Do of a finished Extract.                                           *)
(***************************************************************************)
\* What c.Do(rules) returned to the Extract of the callers.
DoResult == Do(c, call.rules, call.before)

\* Extract got past its own validation and its Do failed.
DoFailed == ExtractCalled /\ c.parser # "none" /\ DoResult.err # NilErr

(***************************************************************************)
(* C22: if Do fails inside Extract (validation, robots denial, transport   *)
(* error), Extract returns that error with a nil response and a nil        *)
(* output, and Parser.Parse is not invoked.                                *)
(***************************************************************************)
C22_DoErrorAbortsExtract ==
    DoFailed =>
        /\ call.out.err = DoResult.err
        /\ call.out.resp = NilResp
        /\ call.out.val = Nil
        /\ \A k \in DOMAIN Trace : Trace[k].op # "Parse"

\* The transport answers with a response and an error to an Extract that
\* has selectors: the response is dropped and nothing is parsed.
C22_Witness ==
    /\ DoFailed
    /\ DoResult.resp # NilResp
    /\ Len(call.rules.Selectors) > 0
    /\ \E k \in DOMAIN Trace : Trace[k].op = "ClientDo"
    /\ call.out.resp = NilResp
    /\ call.out.err = ErrNotFound

(***************************************************************************)
(* The error aggregator on its own.  The callers hold an error value: nil, *)
(* a plain error or an aggregate, and add to it with Errs.Add and          *)
(* AddError.  st.first is the value they started from and st.adds the      *)
(* additions they made since, in order.                                    *)
(***************************************************************************)
MaxAdds == 3

\* The aggregate AddError(nil, "err3", err3) returns.
SubErr == AddError(NilErr, "err3", Error("err 3"))

AddKeys == {"", "err1", "err1#1", "#"}

\* The errors the callers add: none, a plain error and an aggregate.
AddedErrors == <<NilErr, Error("err 1"), SubErr>>

FirstErrors == <<NilErr, EmptyErrs, Error("err 2")>>

InitErrs ==
    /\ c = EngineColibri
    /\ \E i \in DOMAIN FirstErrors :
          st = [errs |-> FirstErrors[i], first |-> FirstErrors[i], adds |-> <<>>]
    /\ call = Idle

Addition(key, err) == [key |-> key, err |-> err]

\* errs.Add(key, err) on the aggregate the callers hold.
CallAdd(key, err) ==
    /\ call = Idle
    /\ Len(st.adds) < MaxAdds
    /\ st.errs # NilErr
    /\ st.errs.kind = "errs"
    /\ LET out == ErrsAdd(st.errs, key, err)
       IN  /\ call' = [op |-> "Add", key |-> key, err |-> err, before |-> st.errs,
                       out |-> out]
           /\ st' = [st EXCEPT !.errs = out, !.adds = Append(@, Addition(key, err))]
    /\ UNCHANGED c

\* errs = AddError(errs, key, err).
CallAddError(key, err) ==
    /\ call = Idle
    /\ Len(st.adds) < MaxAdds
    /\ LET out == AddError(st.errs, key, err)
       IN  /\ call' = [op |-> "AddError", key |-> key, err |-> err,
                       before |-> st.errs, out |-> out]
           /\ st' = [st EXCEPT !.errs = out, !.adds = Append(@, Addition(key, err))]
    /\ UNCHANGED c

NextErrs ==
    \/ \E key \in AddKeys, i \in DOMAIN AddedErrors : CallAdd(key, AddedErrors[i])
    \/ \E key \in AddKeys, i \in DOMAIN AddedErrors : CallAddError(key, AddedErrors[i])
    \/ Return

SpecErrs == InitErrs /\ [][NextErrs]_vars

(***************************************************************************)
(* What the aggregate the callers hold must contain: the plain error they  *)
(* started from, under "#", then every addition that had an error and a    *)
(* key.                                                                    *)
(***************************************************************************)
Aggregated == st.errs # NilErr /\ st.errs.kind = "errs"

Effective == SelectSeq(st.adds, LAMBDA a : a.err # NilErr /\ a.key # "")

Additions ==
    IF st.first.kind = "error" THEN <<Addition("#", st.first)>> \o Effective
    ELSE Effective

Suffixed(key, j) == key \o "#" \o ToString(j)

\* How many of the first i additions were made under the key of the i-th.
Occurrence(i) ==
    Cardinality({j \in 1..i : Additions[j].key = Additions[i].key})

\* The key the i-th addition is to be found under.
KeyOf(i) ==
    IF Occurrence(i) = 1 THEN Additions[i].key
    ELSE Suffixed(Additions[i].key, Occurrence(i) - 1)

\* A key that is the suffixed form of another added key, or the other way
\* round.
Mixed(key) ==
    \E i \in DOMAIN Additions, j \in 1..Len(Additions) :
        \/ Additions[i].key = Suffixed(key, j)
        \/ key = Suffixed(Additions[i].key, j)

(***************************************************************************)
(* C23, as stated: the first error added under a key is retrievable under  *)
(* the bare key and the j-th subsequent one under key#j, so the number of  *)
(* entries is the number of additions with an error and a key.             *)
(***************************************************************************)
C23_SuffixedInOrder ==
    Aggregated =>
        /\ \A i \in DOMAIN Additions : ErrGet(st.errs, KeyOf(i)) = Additions[i].err
        /\ ErrCount(st.errs) = Len(Additions)

(***************************************************************************)
(* C23, amended: no addition overwrites: the entries are the additions     *)
(* with an error and a key, one each and in addition order, under pairwise *)
(* distinct keys; the first under a key has the bare key and the j-th      *)
(* subsequent one key#j, unless a key was itself added that is the         *)
(* suffixed form of another added key: then the next free suffix is used.  *)
(***************************************************************************)
C23_NeverOverwrites ==
    Aggregated =>
        /\ ErrCount(st.errs) = Len(Additions)
        /\ st.errs.vals = [i \in DOMAIN Additions |-> Additions[i].err]
        /\ \A i, j \in DOMAIN st.errs.keys : st.errs.keys[i] = st.errs.keys[j] => i = j
        /\ \A i \in DOMAIN Additions :
              \/ st.errs.keys[i] = Additions[i].key
              \/ \E j \in 1..Len(Additions) :
                    st.errs.keys[i] = Suffixed(Additions[i].key, j)
        /\ \A i \in DOMAIN Additions :
              ~Mixed(Additions[i].key) =>
                  /\ st.errs.keys[i] = KeyOf(i)
                  /\ ErrGet(st.errs, KeyOf(i)) = Additions[i].err

\* Three errors are added under one key.
C23_Witness ==
    /\ Aggregated
    /\ Len(Additions) = 3
    /\ \A i \in DOMAIN Additions : Additions[i].key = "err1"
    /\ Additions[1].err # Additions[2].err
    /\ ErrGet(st.errs, "err1") = Additions[1].err
    /\ ErrGet(st.errs, "err1#1") = Additions[2].err
    /\ ErrGet(st.errs, "err1#2") = Additions[3].err

(***************************************************************************)
(* C24: adding a nil error or an empty key is a no-op: Errs.Add leaves the *)
(* entries unchanged, and AddError returns the value it was given, nil for *)
(* nil.                                                                    *)
(***************************************************************************)
Adding == call # Idle /\ call.op \in {"Add", "AddError"}

C24_NilOrEmptyAddsNothing ==
    (Adding /\ (call.err = NilErr \/ call.key = "")) =>
        /\ call.out = call.before
        /\ st.errs = call.before

\* AddError is given nil and an error under an empty key.
C24_Witness ==
    /\ Adding
    /\ call.op = "AddError"
    /\ call.before = NilErr
    /\ call.key = ""
    /\ call.err # NilErr
    /\ call.out = NilErr

(***************************************************************************)
(* C25: an aggregate added under a key is one entry, the aggregate itself, *)
(* and AddError on a plain error returns an aggregate that holds that      *)
(* error under "#" and the added error under its key.                      *)
(***************************************************************************)
Added == Adding /\ call.err # NilErr /\ call.key # ""

C25_NestedAndPlainKept ==
    Added =>
        /\ call.out.kind = "errs"
        /\ call.out.vals[Len(call.out.vals)] = call.err
        /\ (call.before # NilErr /\ call.before.kind = "errs") =>
              /\ ErrCount(call.out) = ErrCount(call.before) + 1
              /\ SubSeq(call.out.keys, 1, ErrCount(call.before)) = call.before.keys
              /\ SubSeq(call.out.vals, 1, ErrCount(call.before)) = call.before.vals
        /\ call.before = NilErr => ErrCount(call.out) = 1
        /\ (call.before # NilErr /\ call.before.kind = "error") =>
              /\ ErrCount(call.out) = 2
              /\ ErrGet(call.out, "#") = call.before
              /\ call.key # "#" => ErrGet(call.out, call.key) = call.err

\* An aggregate is added to a plain error.
C25_Witness ==
    /\ Added
    /\ call.before = Error("err 2")
    /\ call.err = SubErr
    /\ call.key = "err1"
    /\ ErrCount(call.out) = 2
    /\ ErrGet(call.out, "err1") = SubErr
    /\ ErrGet(call.out, "#") = Error("err 2")

(***************************************************************************)
(* Building from raw input on its own: newSelectors and NewRules applied   *)
(* to the raw mappings of a catalogue, each in a memory of its own with    *)
(* empty pools.  An entry is a key of a raw mapping with its value, and a  *)
(* raw mapping lists its entries in the order the range visits them.       *)
(***************************************************************************)
MaxEntries == 3

Entry(name, raw) == [name |-> name, raw |-> raw]

\* The entries newSelectors passes over: an empty name, a nil value, an
\* empty expression.
SkippedEntries ==
    {Entry("", Str("script")), Entry("body", Nil), Entry("media", Str(""))}

\* Selectors given as an expression and as an object, one of them with a
\* name of its own.
GoodEntries ==
    {Entry("title", Str("title")),
     Entry("head", RawMap(<<"Expr", "All", "Name", "required">>,
                          <<Str("items"), Str("false"), Str("other"), Bool(TRUE)>>))}

\* A value that is no selector, and objects whose All and whose nested
\* Selectors do not convert.
BadEntries ==
    {Entry("bad", Bool(TRUE)),
     Entry("odd", RawMap(<<"Expr", "All">>, <<Str("items"), Str("error")>>)),
     Entry("deep", RawMap(<<"Expr", "Selectors">>, <<Str("items"), Num("21")>>))}

\* An object whose expression is nil.
VoidEntries == {Entry("void", RawMap(<<"Expr">>, <<Nil>>))}

SelectorEntries == SkippedEntries \cup GoodEntries \cup BadEntries \cup VoidEntries

\* The entries of a raw Rules: keys that are no field of Rules, fields
\* with values that convert, that do not convert and that are not
\* assignable, and fields that are nil.
RulesEntries ==
    {Entry("id", Num("123")), Entry("token", Str("T456")), Entry("note", Nil),
     Entry("Follow", Str("true")), Entry("All", Str("error")),
     Entry("Method", Str("GET")), Entry("Method", Num("1")), Entry("Method", Nil),
     Entry("Timeout", Str("2s")), Entry("Delay", Str("error")),
     Entry("URL", Num("2011")),
     Entry("Fields", RawMap(<<"x">>, <<Num("1")>>))}

\* The raw mappings of at most MaxEntries entries of S, in every order:
\* a mapping has no key twice.
RawMaps(S) ==
    {RawMap([i \in DOMAIN q |-> q[i].name], [i \in DOMAIN q |-> q[i].raw]) :
        q \in {q \in SeqsUpTo(S, MaxEntries) :
                  \A i, j \in DOMAIN q : q[i].name = q[j].name => i = j}}

RawSelectorMaps == RawMaps(SelectorEntries)

InitRaw ==
    /\ c = EngineColibri
    /\ st = [m |-> NewMemory]
    /\ call = Idle

\* What a call on raw returned: its value as the callers see it, its
\* error and the value of its panic.
Built(op, raw, r, val) ==
    [op |-> op, raw |-> raw, val |-> val, err |-> r.err, pan |-> r.pan]

\* newSelectors(raw, DefaultConvFunc).
CallNewSelectors(raw) ==
    /\ call = Idle
    /\ LET r == newSelectors(NewMemory, raw, "new")
       IN  /\ call' = Built("newSelectors", raw, r, ViewSelectors(r.m, r.val.v))
           /\ st' = [m |-> r.m]
    /\ UNCHANGED c

\* NewRules(raw).
CallNewRulesOf(raw) ==
    /\ call = Idle
    /\ LET r == NewRules(NewMemory, raw, "new")
       IN  /\ call' = Built("NewRules", raw, r, ViewRules(r.m, r.val))
           /\ st' = [m |-> r.m]
    /\ UNCHANGED c

\* The callers are done with what was built.
Forget ==
    /\ call # Idle
    /\ call' = Idle
    /\ st' = [m |-> NewMemory]
    /\ UNCHANGED c

NextRaw ==
    \/ \E raw \in RawSelectorMaps \cup {Nil, Num("21"), Str("title")} :
            CallNewSelectors(raw)
    \/ \E raw \in RawSelectorMaps \cup {Nil, Num("21")} :
            CallNewRulesOf(RawMap(<<"Selectors">>, <<raw>>))
    \/ \E raw \in RawMaps(RulesEntries) \cup {Nil} : CallNewRulesOf(raw)
    \/ Forget

SpecRaw == InitRaw /\ [][NextRaw]_vars

\* The call at hand is a call of op that has returned or panicked.
Building(op) == call # Idle /\ call.op = op

\* The names, in the raw mapping of the call, of the entries of S.
Named(raw, S) ==
    {raw.keys[i] : i \in {i \in DOMAIN raw.keys : Entry(raw.keys[i], raw.vals[i]) \in S}}

\* The keys of an error: none for no error.
ErrorKeys(err) ==
    IF err.kind = "errs" THEN {err.keys[i] : i \in DOMAIN err.keys} ELSE {}

\* The names of the selectors of a value.
SelectorNames(val) == {val.items[i].Name : i \in DOMAIN val.items}

\* C26: newSelectors over a raw mapping passes over the entries with an
\* empty name, a nil value or an empty expression and records no error for
\* them, records the error of each malformed entry under its name and still
\* returns every well-formed sibling, returns only selectors with a
\* non-empty Name equal to their key, and fails with ErrInvalidSelectors
\* when the raw value is neither nil nor a mapping.
C26_SkipsAndRecords ==
    Building("newSelectors") =>
        /\ call.pan = ""
        /\ call.raw.kind = "map" =>
              /\ SelectorNames(call.val) = Named(call.raw, GoodEntries)
              /\ Len(call.val.items) = Cardinality(Named(call.raw, GoodEntries))
              /\ "" \notin SelectorNames(call.val)
              /\ ErrorKeys(call.err) = Named(call.raw, BadEntries \cup VoidEntries)
        /\ call.raw.kind \notin {"map", "nil"} =>
              /\ call.err = ErrInvalidSelectors
              /\ call.val.items = <<>>

\* The raw Selectors of the call, when the raw Rules holds nothing else.
RawSelectorsOf(raw) == raw.vals[1]

\* The call built Rules from a raw value holding only a Selectors mapping.
BuildingSelectors ==
    /\ Building("NewRules")
    /\ call.raw.kind = "map"
    /\ call.raw.keys = <<"Selectors">>
    /\ RawSelectorsOf(call.raw).kind = "map"

\* The error recorded under key: none when there is none.
ErrorUnder(err, key) ==
    IF \E i \in DOMAIN err.keys : err.keys[i] = key
    THEN err.vals[CHOOSE i \in DOMAIN err.keys : err.keys[i] = key]
    ELSE NilErr

\* C27: when NewRules is given a Selectors mapping with malformed and
\* well-formed entries, the Rules returned carries every well-formed entry
\* in Selectors, and the error holds one entry per malformed entry, under
\* the key "Selectors".
C27_SiblingsKept ==
    /\ BuildingSelectors
    /\ call.pan = ""
    /\ Named(RawSelectorsOf(call.raw), BadEntries) # {}
    /\ Named(RawSelectorsOf(call.raw), GoodEntries) # {}
    => /\ SelectorNames(call.val.Selectors) = Named(RawSelectorsOf(call.raw), GoodEntries)
       /\ ErrorKeys(call.err) = {"Selectors"}
       /\ ErrorKeys(ErrorUnder(call.err, "Selectors")) = Named(RawSelectorsOf(call.raw), BadEntries)

\* key names a field of Rules.
Recognized(key) == FieldType("rules", key) # ""

\* The entries of the catalogue whose value does not convert.
FailingEntries ==
    {Entry("All", Str("error")), Entry("Delay", Str("error")), Entry("URL", Num("2011"))}

\* The field bag holds value under key.
Holds(fields, key, value) ==
    /\ key \in DOMAIN fields.m
    /\ fields.m[key].kind = value.kind
    /\ fields.m[key] = value

\* C28: NewRules rejects no unrecognized key: every raw key that is no
\* field of Rules is in Fields of the Rules returned with its raw value,
\* no key that is a field of Rules is in Fields, and the key of a failed
\* conversion is reported under that key while the others are processed.
C28_UnrecognizedKept ==
    Building("NewRules") /\ call.raw.kind = "map" =>
        /\ call.pan = ""
        /\ \A i \in DOMAIN call.raw.keys :
              ~Recognized(call.raw.keys[i]) =>
                  Holds(call.val.Fields, call.raw.keys[i], call.raw.vals[i])
        /\ \A key \in DOMAIN call.val.Fields.m : ~Recognized(key)
        /\ Named(call.raw, FailingEntries) \subseteq ErrorKeys(call.err)

\* The entries of the catalogue whose value has not the type of its field.
MismatchedEntries == {Entry("Method", Num("1"))}

\* The entries of the catalogue that hold nil for a field of type string.
NilStringEntries == {Entry("Method", Nil)}

\* C40: NewRules and newSelectors never raise a fault for a raw mapping:
\* whatever the keys and the kinds of the values, a nil for a string field
\* such as Method or Expr included, the call returns normally, each value
\* that does not convert is an error under the name of its field, and a
\* value that has not the type of its field is ErrNotAssignable under it.
C40_NeverFaults ==
    call # Idle /\ call.op \in {"NewRules", "newSelectors"} =>
        /\ call.pan = ""
        /\ Building("NewRules") /\ call.raw.kind = "map" =>
              /\ \A key \in Named(call.raw, MismatchedEntries) :
                    ErrorUnder(call.err, key) = ErrNotAssignable
              /\ \A key \in Named(call.raw, FailingEntries) :
                    ErrorUnder(call.err, key) # NilErr

\* A call of NewRules with a nil Method has ended in the panic of
\* reflect's Type on the zero Value.
C40_NilMethodPanics ==
    /\ Building("NewRules")
    /\ call.raw.kind = "map"
    /\ Named(call.raw, NilStringEntries) # {}
    /\ call.pan = PanicZeroValue

(***************************************************************************)
(* The Parsers on their own: Match, Parse, Clear and Set on one Parsers    *)
(* made by New, in any order.                                              *)
(***************************************************************************)
\* The Content-Type of the responses: the four New decodes, one with a
\* parameter, one no pattern of New matches, and none.
ContentTypes ==
    {"text/html", "text/html; charset=utf-8", "application/json", "text/plain",
     "application/xml", "apk", ""}

\* The patterns handed to Set: empty, one that does not compile, one of
\* New and one that matches everything.
SetExprs == {"", "bad", TextRegexp, ".*"}

\* The functions handed to Set: nil, ParseText and ParseXML.
SetFuncs == {"", "text", "xml"}

ParsedPage == URL("https", "h.test", "/p")

ParsedRules ==
    {NilRules,
     Rules(ParsedPage, NilHeader, FALSE, 0, <<>>, <<>>),
     Rules(ParsedPage, NilHeader, FALSE, 0, <<Leaf("t", "title")>>, <<>>)}

ParsedResps == {NilResp} \cup {Response(ParsedPage, contentType) : contentType \in ContentTypes}

InitParsers ==
    /\ c = EngineColibri
    /\ st = NewState
    /\ call = Idle

\* parsers.Match(contentType).
CallMatch(contentType) ==
    /\ call = Idle
    /\ call' = [op |-> "Match", funcs |-> st.funcs, contentType |-> contentType,
                val |-> ParsersMatch(st.funcs, contentType)]
    /\ UNCHANGED <<c, st>>

\* parsers.Parse(rules, resp): the range over funcs visits its patterns in
\* any order.
CallParse(rules, resp) ==
    /\ call = Idle
    /\ \E expr \in Stops(st.funcs, ContentType(resp)) :
          LET r == ParsersParseAt(c, rules, resp, st, expr)
          IN  /\ call' = [op |-> "Parse", funcs |-> st.funcs, rules |-> rules,
                          resp |-> resp, out |-> r]
              /\ st' = Quiet(r.st)
    /\ UNCHANGED c

\* parsers.Clear().
CallClear ==
    /\ call = Idle
    /\ call' = [op |-> "Clear", funcs |-> st.funcs]
    /\ st' = [st EXCEPT !.funcs = ParsersClear(@)]
    /\ UNCHANGED c

\* Set(parsers, expr, parserFunc).
CallSet(expr, parserFunc) ==
    /\ call = Idle
    /\ LET r == ParsersSet(st.funcs, expr, parserFunc)
       IN  /\ call' = [op |-> "Set", funcs |-> st.funcs, expr |-> expr,
                       parserFunc |-> parserFunc, err |-> r.err]
           /\ st' = [st EXCEPT !.funcs = r.funcs]
    /\ UNCHANGED c

NextParsers ==
    \/ \E contentType \in ContentTypes : CallMatch(contentType)
    \/ \E rules \in ParsedRules, resp \in ParsedResps : CallParse(rules, resp)
    \/ CallClear
    \/ \E expr \in SetExprs, parserFunc \in SetFuncs : CallSet(expr, parserFunc)
    \/ Return

SpecParsers == InitParsers /\ [][NextParsers]_vars

\* Parse was given rules and a response whose Content-Type no pattern
\* registered at the call matches.
Unmatched ==
    /\ Building("Parse")
    /\ call.resp # NilResp
    /\ ~ParsersMatch(call.funcs, ContentType(call.resp))

\* Parse returned ErrNotMatch with no output and no call on an element.
NotMatched ==
    /\ call.out.err = ErrNotMatch
    /\ call.out.val = Nil
    /\ call.out.st.trace = <<>>

\* Set was given an empty pattern, a nil function or a pattern that does
\* not compile.
SetRefused ==
    /\ Building("Set")
    /\ call.expr = "" \/ call.parserFunc = "" \/ ~Compiles(call.expr)

\* Clear empties the registry, an empty registry matches no content type,
\* a refused Set registers nothing, and Match and Parse register nothing.
ClearedUntilSet ==
    /\ Building("Clear") => DOMAIN st.funcs = {}
    /\ Building("Match") /\ DOMAIN call.funcs = {} => ~call.val
    /\ Building("Parse") /\ DOMAIN call.funcs = {} => Unmatched \/ call.resp = NilResp
    /\ SetRefused => st.funcs = call.funcs
    /\ Building("Match") \/ Building("Parse") => st.funcs = call.funcs

\* C29 as stated: Parse returns ErrNotMatch and runs no extraction
\* whenever no registered pattern matches the Content-Type of the response;
\* after Clear nothing matches until Set registers a decoder, and Set with
\* an empty pattern, a nil function or an uncompilable pattern registers
\* nothing.
C29_NotMatchUntilSet ==
    /\ Unmatched => NotMatched
    /\ ClearedUntilSet

\* C29, amended: the same for a Parse that is given rules; without rules
\* Parse returns no output and no error, whatever is registered.
C29_NotMatchGivenRules ==
    /\ Unmatched =>
          IF call.rules = NilRules
          THEN call.out.err = NilErr /\ call.out.val = Nil /\ call.out.st.trace = <<>>
          ELSE NotMatched
    /\ ClearedUntilSet

\* Parse after Clear, of a response New had a decoder for, with rules that
\* have a selector.
C29_Witness ==
    /\ Unmatched
    /\ call.rules # NilRules
    /\ call.rules.Selectors # <<>>
    /\ DOMAIN call.funcs = {}
    /\ ContentType(call.resp) = "text/plain"
    /\ NotMatched

(***************************************************************************)
(* Extract on Rules in memory: what Do, the engine and the robots.txt gate *)
(* do to the instances they are handed and to the ones they make.  The     *)
(* pages decide how many links a selector finds and which followed page    *)
(* fails; a plan stands for them:                                          *)
(*   links   the links a selector with All finds (one without All finds    *)
(*           the first of them)                                            *)
(*   fails   how following the last link fails: "none", "url" (a link is   *)
(*           no URL), "do" (the request fails), "parse" (a selector of     *)
(*           the followed page fails)                                      *)
(*   gate    RobotsData fetches robots.txt before every request            *)
(***************************************************************************)
MaxLinks == 2

Plans ==
    [links : 0..MaxLinks, fails : {"none", "url", "do", "parse"}, gate : BOOLEAN]

\* The header defaulting of Do on the Rules at a: a nil header is made, and
\* a blank User-Agent is set in the header the Rules point to.
DoHeader(m, a) ==
    LET h == m.heap[a].Header
    IN  IF h = NoRef
        THEN [New(m, HeaderObject("User-Agent" :> DefaultUserAgent)).m
                EXCEPT !.heap[a].Header = Len(m.heap) + 1]
        ELSE IF TrimSpace(HeaderGet(Header(m.heap[h].m), "User-Agent")) = ""
        THEN [m EXCEPT !.heap[h].m = ("User-Agent" :> DefaultUserAgent) @@ @]
        ELSE m

\* RobotsData.IsAllowed for a host it holds nothing of: the Rules of the
\* robots.txt request are derived from an empty selector, requested and
\* released with it.
IsAllowedRefs(m, a) ==
    LET aux == New(m, SelectorObject("", "", "", FALSE, FALSE, NilSlice, NoRef))
        robotsRules == Selector_Rules(aux.m, aux.at, a)
        u == New(robotsRules.m,
                 URLObject(ResolveReference(m.heap[m.heap[a].URL].u,
                                            URL("", "", "/robots.txt"))))
        requested ==
            DoHeader([u.m EXCEPT !.heap[robotsRules.at].Method = "GET",
                                 !.heap[robotsRules.at].URL = u.at,
                                 !.heap[robotsRules.at].IgnoreRobotsTxt = TRUE],
                     robotsRules.at)
    IN  ReleaseRules(ReleaseSelector(requested, aux.at), robotsRules.at)

\* Do on the Rules at a.
DoRefs(m, a, plan) ==
    IF plan.gate /\ ~m.heap[a].IgnoreRobotsTxt
    THEN IsAllowedRefs(DoHeader(m, a), a)
    ELSE DoHeader(m, a)

\* a is the address of an object of m.  The loops below ask it of the
\* Rules they work for, so that the memory a turn leaves is computed before
\* the next turn starts.
InMemory(m, a) == a \in DOMAIN m.heap

\* The values a selector found: all the links with All, else the first.
Found(selector, plan) ==
    IF selector.All THEN plan.links ELSE IF plan.links > 0 THEN 1 ELSE 0

RECURSIVE ExtractRefs(_, _, _, _)
RECURSIVE findSelectorsRefs(_, _, _, _, _)
RECURSIVE followLoopRefs(_, _, _, _, _)

\* The derived Rules are extracted themselves, not their clone.
followTurnNoClone(rules, i, n, plan, cRules) ==
    LET u == New(cRules.m, URLObject(URL("https", "h.test", "/a")))
        failed == i = n /\ plan.fails \in {"do", "parse"}
        extracted ==
            ExtractRefs([u.m EXCEPT !.heap[rules].URL = u.at], rules, plan,
                        failed /\ plan.fails = "do")
    IN  followLoopRefs(IF failed THEN extracted ELSE ReleaseRules(extracted, cRules.at),
                       rules, i + 1, n, plan)

\* The turn of the second loop of followSelector once rules.Clone() has
\* returned cRules: its URL is set, it is extracted, and it is released
\* unless the extraction failed.
followTurnRefs(rules, i, n, plan, cRules) ==
    LET u == New(cRules.m, URLObject(URL("https", "h.test", "/a")))
        failed == i = n /\ plan.fails \in {"do", "parse"}
        extracted ==
            ExtractRefs([u.m EXCEPT !.heap[cRules.at].URL = u.at], cRules.at, plan,
                        failed /\ plan.fails = "do")
    IN  followLoopRefs(IF failed THEN extracted ELSE ReleaseRules(extracted, cRules.at),
                       rules, i + 1, n, plan)

followLoopRefs(m, rules, i, n, plan) ==
    IF i > n \/ ~InMemory(m, rules) THEN m
    ELSE followTurnRefs(rules, i, n, plan, Rules_Clone(m, rules))

\* followSelector once selector.Rules(src) has returned rules.
followRefs(n, plan, rules) ==
    ReleaseRules(followLoopRefs(rules.m, rules.at, 1, n, plan), rules.at)

\* followSelector(src, resp, selector, rawURL...) with n values.
followSelectorRefs(m, src, a, n, plan) ==
    IF plan.fails = "url" /\ n > 0 THEN m
    ELSE followRefs(n, plan, Selector_Rules(m, a, src))

RECURSIVE nestedLoopRefs(_, _, _, _, _)
\* findSelectors over the nested selectors at, below each of n children.
nestedLoopRefs(m, src, at, n, plan) ==
    IF n = 0 \/ ~InMemory(m, src) THEN m
    ELSE nestedLoopRefs(findSelectorsRefs(m, src, at, 1, plan), src, at, n - 1, plan)

\* findSelector and findAllSelector for the selector at a.
findSelectorRefs(m, src, a, plan) ==
    LET selector == m.heap[a]
        n == Found(selector, plan)
    IN  IF ~selector.All /\ n = 0 THEN m
        ELSE IF selector.Follow THEN followSelectorRefs(m, src, a, n, plan)
        ELSE nestedLoopRefs(m, src, selector.Selectors.at, n, plan)

findSelectorsRefs(m, src, at, i, plan) ==
    IF i > Len(at) \/ ~InMemory(m, src) THEN m
    ELSE findSelectorsRefs(findSelectorRefs(m, src, at[i], plan), src, at, i + 1, plan)

\* Colibri.Extract on the Rules at a; the request fails when failed.
ExtractRefs(m, a, plan, failed) ==
    IF failed THEN DoRefs(m, a, plan)
    ELSE LET requested == DoRefs(m, a, plan)
         IN  findSelectorsRefs(requested, a, requested.heap[a].Selectors.at, 1, plan)

\* The Rules and the Selector the engine is handed, for what their
\* instance in memory shows.
RECURSIVE AsSelector(_)
AsSelectors(selectors) ==
    [i \in DOMAIN selectors.items |-> AsSelector(selectors.items[i])]

AsSelector(v) ==
    Selector(v.Name, v.Expr, v.Type, v.All, v.Follow, AsSelectors(v.Selectors),
             v.Fields.m)

AsRules(v) ==
    [Method |-> v.Method, URL |-> v.URL, Proxy |-> v.Proxy, Header |-> v.Header,
     Timeout |-> v.Timeout, UseCookies |-> v.UseCookies,
     IgnoreRobotsTxt |-> v.IgnoreRobotsTxt, Delay |-> v.Delay,
     Selectors |-> AsSelectors(v.Selectors), Fields |-> v.Fields.m]

\* The raw Rules the callers extract with: a followed selector with
\* overrides, a followed selector with All below which another is
\* followed, and followed selectors below the items of a page.
RawNested ==
    RawMap(<<"Expr", "All", "Selectors">>,
           <<Str("items"), Bool(TRUE),
             RawMap(<<"go", "t">>,
                    <<RawMap(<<"Expr", "Follow", "Header", "token">>,
                             <<Str("link"), Bool(TRUE), RawAccept, Str("T456")>>),
                      Str("title")>>)>>)

FollowRaws ==
    {RawMap(<<"URL", "Selectors">>,
            <<Str("https://h.test/p"),
              RawMap(<<"next", "title">>, <<RawFollow, Str("title")>>)>>),
     RawMap(<<"URL", "Header", "token", "Selectors">>,
            <<Str("https://h.test/p"), RawMap(<<"User-Agent">>, <<Str("   ")>>),
              Str("T456"),
              RawMap(<<"all">>,
                     <<RawMap(<<"Expr", "All", "Follow", "Header", "Selectors">>,
                              <<Str("links"), Bool(TRUE), Bool(TRUE), RawAccept,
                                RawMap(<<"next">>, <<RawFollow>>)>>)>>)>>),
     RawMap(<<"URL", "Header", "Selectors">>,
            <<Str("https://h.test/p"), RawMap(<<"User-Agent">>, <<Str("test/0.1")>>),
              RawMap(<<"items">>, <<RawNested>>)>>)}

GatedColibri == Colibri("net", "data", "none", "parsers", {})

InitFollow ==
    /\ c \in {EngineColibri, GatedColibri}
    /\ st = [m |-> NewMemory, held |-> {}, steps |-> 0]
    /\ call = Idle

\* c.Extract(rules) for the Rules at a the caller holds, twice: what the
\* calls do to the memory under the plan, and what the first call and its
\* repetition return for the pages of the model.
CallExtractRefs(a, plan) ==
    /\ Starts
    /\ KindOf(a) = "rules"
    /\ a \notin st.m.rulesPool
    /\ st.m.heap[a].URL # NoRef
    /\ plan.gate = (c.robots # "none")
    /\ LET before == View(st.m, a)
           m == ExtractRefs(Before, a, plan, FALSE)
           out == Extract(c, AsRules(before), NewState)
           again == Extract(c, AsRules(View(m, a)), Quiet(out.st))
       IN  /\ call' = [op |-> "Extract", rules |-> a, plan |-> plan,
                       before |-> before, after |-> View(m, a),
                       out |-> [val |-> out.val, err |-> out.err],
                       again |-> [val |-> again.val, err |-> again.err]]
           /\ st' = [st EXCEPT !.m = m, !.steps = @ + 1]
    /\ UNCHANGED c

NextFollow ==
    \/ \E raw \in FollowRaws, pick \in Picks : CallNewRules(raw, pick)
    \/ \E a \in st.held, plan \in Plans : CallExtractRefs(a, plan)
    \/ Return

SpecFollow == InitFollow /\ [][NextFollow]_vars

\* What the Rules show apart from their header.
HeaderApart(v) == [v EXCEPT !.Header = NilHeader]

\* The selectors of a tree that are followed with a header of their own in
\* their field bag.
RECURSIVE Overriding(_)
Overriding(selectors) ==
    \E i \in DOMAIN selectors.items :
        \/ /\ selectors.items[i].Follow
           /\ "Header" \in DOMAIN selectors.items[i].Fields.m
        \/ Overriding(selectors.items[i].Selectors)

\* C30: Extract changes nothing of the Rules of the caller but the header,
\* in which it defaults the User-Agent: the selector tree with its names,
\* expressions, flags, nested selectors and field bags shows after the
\* call, follows and releases included, what it showed before, and the
\* same Extract again returns the same output and error.
C30_CallerRulesKept ==
    Building("Extract") =>
        /\ HeaderApart(call.after) = HeaderApart(call.before)
        /\ call.after.Header = DefaultHeader(AsRules(call.before)).Header
        /\ call.again = call.out

\* An Extract that followed two links of a selector with a header of its
\* own, released the Rules of each, and returned what it found there.
C30_Witness ==
    /\ Building("Extract")
    /\ call.plan.links = MaxLinks
    /\ call.plan.fails = "none"
    /\ Overriding(call.before.Selectors)
    /\ st.m.rulesPool # {}
    /\ call.out.err = NilErr
    /\ call.out.val # Nil
    /\ call.after.Header # call.before.Header

(***************************************************************************)
(* The order of the collaborator invocations of one Extract.  The call     *)
(* that starts at the Extract event k of the trace makes, itself, the      *)
(* invocations one Extract deeper and outside any further IsAllowed, up to *)
(* the next Extract its caller starts.                                     *)
(***************************************************************************)
Starting == {k \in DOMAIN Trace : Trace[k].op = "Extract"}

\* The next Extract started by the caller of the one starting at k, or the
\* end of the trace.
Until(k) ==
    LET later == {j \in Starting : j > k /\ Trace[j].depth = Trace[k].depth
                                          /\ Trace[j].gate = Trace[k].gate}
    IN  IF later = {} THEN Len(Trace) + 1
        ELSE CHOOSE j \in later : \A i \in later : j <= i

InvokedBy(k) ==
    {j \in DOMAIN Trace :
        /\ k < j /\ j < Until(k)
        /\ Trace[j].op \in Methods
        /\ Trace[j].depth = Trace[k].depth + 1
        /\ Trace[j].gate = Trace[k].gate}

\* The place of a collaborator method in the order of one Extract.
Rank(op) ==
    CASE op = "IsAllowed" -> 1
      [] op = "Wait" -> 2
      [] op = "ClientDo" -> 3
      [] op = "Stamp" -> 4
      [] op = "Done" -> 5
      [] op = "Parse" -> 6

\* The invocations the Extract of the callers makes itself.
OfCall(op) == {j \in InvokedBy(1) : Trace[j].op = op}

\* C31: within one Extract the collaborators are invoked only in the order
\* IsAllowed, Wait, HTTPClient.Do, Stamp, Done, Parse, each at most once and
\* only if its gate applies; HTTPClient.Do is not invoked unless IsAllowed
\* returned nil and Wait returned, and Parse is not invoked unless Do
\* returned without error.
C31_InvocationOrder ==
    ExtractCalled =>
        /\ \A k \in Starting : \A i, j \in InvokedBy(k) :
              i < j => Rank(Trace[i].op) < Rank(Trace[j].op)
        /\ OfCall("IsAllowed") # {} => GateConfigured
        /\ OfCall("Wait") # {} => c.delay # "none" /\ call.rules.Delay > 0
        /\ OfCall("Stamp") # {} => c.delay # "none"
        /\ OfCall("Done") # {} => OfCall("Wait") # {}
        /\ OfCall("Parse") # {} => Len(call.rules.Selectors) > 0
        /\ OfCall("ClientDo") # {} =>
              /\ OfCall("IsAllowed") # {} <=> GateConfigured
              /\ GateConfigured => Gate.pan = "" /\ Gate.err = NilErr
              /\ OfCall("Wait") # {} <=> (c.delay # "none" /\ call.rules.Delay > 0)
              /\ ~Faulty(c, "Wait") \/ OfCall("Wait") = {}
        /\ OfCall("Parse") # {} =>
              /\ DoResult.err = NilErr
              /\ OfCall("ClientDo") # {}
              /\ OfCall("Wait") # {} => OfCall("Done") # {}

\* An Extract that invokes all six, and follows links whose Extract
\* invokes them again.
C31_Witness ==
    /\ ExtractCalled
    /\ \A op \in Methods : OfCall(op) # {}
    /\ \E k \in Starting : k > 1 /\ Cardinality(InvokedBy(k)) >= 5
    /\ call.out.err = NilErr

(***************************************************************************)
(* Extract over pages of every kind: pages a decoder is registered for    *)
(* and pages none is, with selector lists that are empty, that query the   *)
(* page, and that follow its links with or without nested selectors.       *)
(***************************************************************************)
PageURLs ==
    {URL("https", "h.test", "/p"), URL("https", "h.test", "/k"),
     URL("https", "h.test", "/missing"), URL("https", "j.test", "/p")}

PageSelectors ==
    {<<>>, <<Leaf("title", "title")>>,
     <<Selector("app", "apps", "", FALSE, TRUE, <<>>, <<>>)>>,
     <<Selector("app", "apps", "", TRUE, TRUE, <<Leaf("title", "title")>>, <<>>)>>,
     <<Selector("next", "links", "", TRUE, TRUE, <<>>, <<>>)>>,
     <<Selector("self", "title", "", FALSE, TRUE, <<Leaf("title", "title")>>, <<>>)>>}

PageRules ==
    {NilRules} \cup
    {Rules(u, NilHeader, ig, 1, sels, <<>>) :
        u \in PageURLs, ig \in BOOLEAN, sels \in PageSelectors}

InitPages ==
    /\ c \in Configs
    /\ st = NewState
    /\ call = Idle

NextPages ==
    \/ \E rules \in PageRules : CallExtract(rules)
    \/ Return

SpecPages == InitPages /\ [][NextPages]_vars

\* The Extract reached its Do and the Do returned no error.
DoSucceeded == ExtractCalled /\ c.parser # "none" /\ DoResult.err = NilErr

\* The first selector of the call follows links and has no nested selectors.
FollowsBare ==
    /\ DoSucceeded
    /\ Len(Top) > 0
    /\ First.Follow
    /\ Len(First.Selectors) = 0

\* The transport was called for the followed page of the Extract issued at k.
FetchedAt(k) ==
    \E j \in (k + 1)..SpanEnd(k) : Trace[j].op = "ClientDo" /\ Trace[j].depth = 2

\* What the call returned under the name of its first selector, and the
\* followed pages that are recorded there.
FirstVal ==
    IF call.out.val.kind = "map" /\ First.Name \in DOMAIN call.out.val.m
    THEN call.out.val.m[First.Name] ELSE Nil
Followed == {k \in Issued : FirstVal.kind = "map" /\ Trace[k].arg \in DOMAIN FirstVal.m}

(***************************************************************************)
(* C32: Extract invokes Parser.Parse iff its Do succeeded and              *)
(* rules.Selectors is non-empty; with an empty selector list and a Do that *)
(* succeeded it returns the response of Do, a nil output and no error,     *)
(* also when no registered decoder matches the content type; a followed    *)
(* page whose selector has no nested selectors is not parsed, and when     *)
(* the selector returns no error each such page is fetched and mapped to a *)
(* nil value.                                                              *)
(***************************************************************************)
C32_ParseIffSelectors ==
    (ExtractCalled /\ call.rules # NilRules) =>
        /\ OfCall("Parse") # {} <=> (DoSucceeded /\ Len(Top) > 0)
        /\ (DoSucceeded /\ Len(Top) = 0) =>
              /\ call.out.resp = DoResult.resp
              /\ call.out.resp # NilResp
              /\ call.out.val = Nil
              /\ call.out.err = NilErr
              /\ call.out.pan = ""
        /\ (FollowsBare /\ call.out.pan = "") =>
              /\ \A k \in Issued : ~ParsedAt(k)
              /\ FirstErrs = NilErr =>
                    \A k \in Issued :
                        /\ FetchedAt(k)
                        /\ k \in Followed
                        /\ FirstVal.m[Trace[k].arg] = Nil

\* A followed page no decoder is registered for, reached through a
\* selector without nested selectors, is mapped to nil.
C32_Witness ==
    /\ FollowsBare
    /\ call.out.err = NilErr
    /\ \E k \in Followed :
            /\ Trace[k].arg = "https://h.test/k"
            /\ Matching(st.funcs, Fetch(URL("https", "h.test", "/k")).resp.contentType) = {}

(***************************************************************************)
(* The policies RobotsData keeps, over the calls of Spec.                  *)
(***************************************************************************)
Hosts == {u.host : u \in CallURLs} \cup {"x.test"}

RobotsURL(host) == URLString(URL("https", host, robotsTxtPath))

\* The invocations made for the robots.txt of host during the call, and
\* the calls of the transport among them.
RobotsFetch(host) ==
    {k \in DOMAIN Trace : Trace[k].gate > 0 /\ Trace[k].arg = RobotsURL(host)}
RobotsSent(host) == {k \in RobotsFetch(host) : Trace[k].op = "ClientDo"}

\* The consultations of RobotsData for a page of host during the call.
Consulted(host) ==
    {k \in DOMAIN Trace :
        /\ Trace[k].op = "IsAllowed"
        /\ Trace[k].arg # RobotsURL(host)
        /\ \E path \in {"/p", "/a", "/b", "/missing", "/r", "/e", "/k"} :
                Trace[k].arg = URLString(URL("https", host, path))}

\* A call is over whose Colibri consults RobotsData.
DataCalled == call # Idle /\ c.robots = "data" /\ ~Faulty(c, "IsAllowed")

\* What c.Do returned to the RobotsData consulted by the Do of the call.
PolicyFetch == Do(c, RobotsRules(DefaultHeader(call.rules)), GateEnter(call.before))

\* The Do of the call consults RobotsData, which holds no policy of the host.
Uncached ==
    /\ Gated
    /\ DataCalled
    /\ call.rules.URL.path # robotsTxtPath
    /\ call.rules.URL.host \notin DOMAIN call.before.robots

(***************************************************************************)
(* C33: once RobotsData has fetched and stored the policy of a host, no    *)
(* later IsAllowed for a URL of that host fetches robots.txt until Clear;  *)
(* a robots.txt fetch that fails returns its error to the caller and       *)
(* stores nothing, and the next IsAllowed for the host fetches again.      *)
(***************************************************************************)
C33_PolicyKeptPerHost ==
    DataCalled =>
        /\ \A host \in DOMAIN call.before.robots : RobotsFetch(host) = {}
        /\ \A host \in Hosts :
              /\ host \in DOMAIN call.out.st.robots \ DOMAIN call.before.robots =>
                    \E k \in RobotsSent(host) :
                        /\ \A j \in RobotsFetch(host) : j <= k + 2
                        /\ \E i \in Consulted(host) : i < k
              /\ host \notin DOMAIN call.out.st.robots =>
                    \A k \in Consulted(host) :
                        \E j \in RobotsFetch(host) : j > k /\ Trace[j].depth = Trace[k].depth
              /\ host \in DOMAIN call.out.st.robots =>
                    call.out.st.robots[host] = RobotsDisallow(host)
        /\ Uncached =>
              /\ RobotsFetch(call.rules.URL.host) # {}
              /\ PolicyFetch.err # NilErr =>
                    /\ Gate.err = PolicyFetch.err
                    /\ call.out.err = PolicyFetch.err
                    /\ call.rules.URL.host \notin DOMAIN call.out.st.robots
              /\ PolicyFetch.err = NilErr =>
                    call.rules.URL.host \in DOMAIN call.out.st.robots

\* The stored policy of a host answers without a fetch, and the robots.txt
\* of another host, whose fetch fails, is fetched again for its next page.
C33_Witness ==
    /\ DataCalled
    /\ \E host \in DOMAIN call.before.robots :
            Consulted(host) # {} /\ RobotsFetch(host) = {}
    /\ \E host \in Hosts :
            /\ Cardinality(RobotsSent(host)) >= 2
            /\ host \notin DOMAIN call.out.st.robots

(***************************************************************************)
(* RobotsData entered from Do, and Do entered from RobotsData.             *)
(***************************************************************************)
\* The invocations made from within RobotsData.IsAllowed during the call.
Within == {k \in DOMAIN Trace : Trace[k].gate > 0}

\* The Do of the call asks RobotsData about a robots.txt.
AsksForRobotsTxt ==
    /\ Gated
    /\ DataCalled
    /\ call.rules.URL.path = robotsTxtPath

(***************************************************************************)
(* C34: RobotsData.IsAllowed returns nil for a request whose path is       *)
(* /robots.txt, without a fetch and without reading or storing a policy;   *)
(* the robots.txt request it issues goes through Do with IgnoreRobotsTxt   *)
(* set, so that IsAllowed is never entered from within IsAllowed, and a Do *)
(* triggers at most one robots.txt fetch.                                  *)
(***************************************************************************)
C34_GateNotReentered ==
    (call # Idle /\ c.robots = "data") =>
        /\ \A k \in Within :
              /\ Trace[k].gate = 1
              /\ Trace[k].op \in {"Wait", "ClientDo", "Stamp", "Done"}
              /\ \E host \in Hosts : Trace[k].arg = RobotsURL(host)
        /\ \A k \in DOMAIN Trace : Trace[k].op = "IsAllowed" => Trace[k].gate = 0
        /\ DoCalled => Cardinality({k \in Within : Trace[k].op = "ClientDo"}) <= 1
        /\ AsksForRobotsTxt =>
              /\ Own("IsAllowed") # {}
              /\ Gate.err = NilErr
              /\ Gate.pan = ""
              /\ Within = {}
              /\ call.out.st.robots = call.before.robots
              /\ call.out.err # ErrorRobotstxtRestriction
        /\ (Uncached /\ call.rules.URL.host \in Hosts) =>
              /\ RobotsRules(DefaultHeader(call.rules)).IgnoreRobotsTxt
              /\ Within # {}

\* An Extract of a robots.txt passes the gate without a fetch and follows
\* a link of it, for which the robots.txt is fetched from within the gate.
C34_Witness ==
    /\ ExtractCalled
    /\ c.robots = "data"
    /\ call.rules # NilRules
    /\ call.rules.URL.path = robotsTxtPath
    /\ ~call.rules.IgnoreRobotsTxt
    /\ \E k \in DOMAIN Trace :
            /\ Trace[k].op = "IsAllowed" /\ Trace[k].depth = 1
            /\ k + 1 \in DOMAIN Trace
            /\ Trace[k + 1].gate = 0
    /\ \E k \in Within : Trace[k].op = "ClientDo"

(***************************************************************************)
(* RobotsData.IsAllowed called by several goroutines.  robots.rw makes the *)
(* lookup (RLock to RUnlock) one step and the store (Lock to Unlock) one   *)
(* step; c.Do runs between them with no lock held.  call maps each         *)
(* goroutine to its place in IsAllowed:                                    *)
(*   pc      idle, entered, missed, fetched, found, done                   *)
(*   cached  the host was stored when the goroutine looked it up           *)
(*   ok      what its lookup returned                                      *)
(*   sent    how many robots.txt requests it has made                      *)
(***************************************************************************)
MaxGoroutines == 3

Goroutines == 1..MaxGoroutines

RaceColibri == Colibri("net", "data", "none", "parsers", {})

RaceRules ==
    {DefaultHeader(Rules(u, NilHeader, FALSE, 0, <<>>, <<>>)) :
        u \in {URL("https", "h.test", "/p"), URL("https", "h.test", "/b"),
               URL("https", "x.test", "/p"), URL("https", "h.test", "/robots.txt")}}

Asleep ==
    [pc |-> "idle", rules |-> NilRules, cached |-> FALSE, ok |-> FALSE,
     policy |-> {}, err |-> NilErr, sent |-> 0]

\* The lookup misses whatever is stored.
IsAllowedLookupMiss(data, host) == [ok |-> FALSE, policy |-> {}]

\* robotsData, ok := robots.data[rules.URL.Host], under the read lock.
IsAllowedLookup(data, host) ==
    IF host \in DOMAIN data THEN [ok |-> TRUE, policy |-> data[host]]
    ELSE [ok |-> FALSE, policy |-> {}]

InitRace ==
    /\ c = RaceColibri
    /\ st = NewState
    /\ call = [g \in Goroutines |-> Asleep]

\* Goroutine g enters IsAllowed(c, rules).
RaceEnter(g, rules) ==
    /\ call[g].pc = "idle"
    /\ call' = [call EXCEPT ![g].rules = rules,
                            ![g].pc = IF rules.URL.path = robotsTxtPath
                                      THEN "done" ELSE "entered"]
    /\ UNCHANGED <<c, st>>

\* The lookup of the host.
RaceLookup(g) ==
    /\ call[g].pc = "entered"
    /\ LET host == call[g].rules.URL.host
           l == IsAllowedLookup(st.robots, host)
       IN  call' = [call EXCEPT ![g].cached = host \in DOMAIN st.robots,
                                ![g].ok = l.ok,
                                ![g].policy = l.policy,
                                ![g].pc = IF l.ok THEN "found" ELSE "missed"]
    /\ UNCHANGED <<c, st>>

\* c.Do(robotsRules) and the parsing of what it returned.
RaceFetch(g) ==
    /\ call[g].pc = "missed"
    /\ LET d == Do(c, RobotsRules(call[g].rules), st)
       IN  /\ st' = d.st
           /\ call' = [call EXCEPT
                          ![g].sent = @ + 1,
                          ![g].err = d.err,
                          ![g].policy = IF d.err = NilErr
                                        THEN RobotsDisallow(call[g].rules.URL.host)
                                        ELSE {},
                          ![g].pc = IF d.err = NilErr THEN "fetched" ELSE "done"]
    /\ UNCHANGED c

\* robots.data[rules.URL.Host] = robotsData, under the write lock.
RaceStore(g) ==
    /\ call[g].pc = "fetched"
    /\ st' = [st EXCEPT !.robots =
                  (call[g].rules.URL.host :> call[g].policy) @@ @]
    /\ call' = [call EXCEPT ![g].pc = "found"]
    /\ UNCHANGED c

\* robotsData.TestAgent and the return.
RaceTest(g) ==
    /\ call[g].pc = "found"
    /\ call' = [call EXCEPT ![g].err = RobotsVerdict(call[g].policy, call[g].rules),
                            ![g].pc = "done"]
    /\ UNCHANGED <<c, st>>

NextRace ==
    \/ \E g \in Goroutines, rules \in RaceRules : RaceEnter(g, rules)
    \/ \E g \in Goroutines : RaceLookup(g)
    \/ \E g \in Goroutines : RaceFetch(g)
    \/ \E g \in Goroutines : RaceStore(g)
    \/ \E g \in Goroutines : RaceTest(g)

SpecRace == InitRace /\ [][NextRace]_vars

\* The goroutines that asked about a page of host, and the robots.txt
\* requests made for host so far.
Asking(host) ==
    {g \in Goroutines :
        /\ call[g].pc # "idle"
        /\ call[g].rules.URL.host = host
        /\ call[g].rules.URL.path # robotsTxtPath}
SentFor(host) ==
    {k \in DOMAIN st.trace :
        st.trace[k].op = "ClientDo" /\ st.trace[k].arg = RobotsURL(host)}

\* The hosts whose robots.txt the network serves.
Served == {host \in Hosts : Fetch(URL("https", host, robotsTxtPath)).err = NilErr}

(***************************************************************************)
(* C35, as stated: when several goroutines call IsAllowed concurrently for *)
(* URLs of a host whose policy is not stored yet, robots.txt is fetched at *)
(* most once for that host.                                                *)
(***************************************************************************)
C35_FetchedOnce == \A host \in Served : Cardinality(SentFor(host)) <= 1

(***************************************************************************)
(* C35, amended: every goroutine whose lookup misses fetches robots.txt    *)
(* itself, once, so a host is fetched at most once per caller; a goroutine *)
(* that looks the host up after a store has completed fetches nothing; all *)
(* stores of a host hold the same policy, and every caller of a served     *)
(* host gets the verdict of that policy.                                   *)
(***************************************************************************)
C35_FetchedOncePerMiss ==
    /\ \A host \in Hosts :
          /\ Cardinality(SentFor(host)) =
                Cardinality({g \in Asking(host) : call[g].sent = 1})
          /\ host \in DOMAIN st.robots => st.robots[host] = RobotsDisallow(host)
          /\ host \in DOMAIN st.robots <=>
                (host \in Served /\ \E g \in Asking(host) : call[g].sent = 1 /\ call[g].pc \in {"found", "done"})
    /\ \A g \in Goroutines :
          /\ call[g].sent <= 1
          /\ call[g].cached => call[g].sent = 0 /\ call[g].pc \in {"found", "done"}
          /\ (~call[g].cached /\ call[g].pc \in {"fetched", "found", "done"}
                /\ call[g].rules.URL.path # robotsTxtPath) => call[g].sent = 1
          /\ (call[g].pc = "done" /\ call[g].rules.URL.path # robotsTxtPath) =>
                call[g].err =
                    IF call[g].rules.URL.host \in Served
                    THEN RobotsVerdict(RobotsDisallow(call[g].rules.URL.host), call[g].rules)
                    ELSE Fetch(RobotsRules(call[g].rules).URL).err

\* Two goroutines have fetched the robots.txt of one served host, and a
\* third has found the stored policy.
C35_Witness ==
    \E host \in Served :
        /\ Cardinality(SentFor(host)) = 2
        /\ \E g \in Asking(host) : call[g].cached /\ call[g].pc = "done"

(***************************************************************************)
(* The extraction engine step by step.  call is the stack of the loops in  *)
(* progress, the innermost last:                                           *)
(*   links  the second loop of followSelector over urls (the Extract of    *)
(*          the callers is a loop over its one URL)                        *)
(*   list   the loop of findSelectors over sels on the element parent      *)
(*   each   the loop of findAllSelector over the matched children kids     *)
(* i is the next index of the loop; rules are the Rules of the Extract the *)
(* loop runs in, for links the Rules derived from the followed selector.   *)
(***************************************************************************)
MaxStack == 12
MaxMatches == 3

Frame(kind, rules, resp, parent, sels, urls, kids) ==
    [kind |-> kind, rules |-> rules, resp |-> resp, parent |-> parent,
     sels |-> sels, urls |-> urls, kids |-> kids, i |-> 1]

\* The selector lists walked: one selector, of every shape, and the
\* lists of its nested selectors.
WalkLists == {<<first>> : first \in FirstSelectors}

WalkRules ==
    {Rules(url, NilHeader, FALSE, 0, selectors, <<>>) :
        url \in EngineURLs, selectors \in WalkLists}

\* The loops a frame runs over.
Turns(f) ==
    CASE f.kind = "links" -> Len(f.urls)
      [] f.kind = "list" -> Len(f.sels)
      [] OTHER -> Len(f.kids)

Innermost == call[Len(call)]

\* How many Extracts are on the stack.
Extracting == Cardinality({k \in DOMAIN call : call[k].kind = "links"})

InitWalk ==
    /\ c = EngineColibri
    /\ st = NewState
    /\ call = <<>>

\* A caller runs c.Extract(rules).
StepExtract(rules) ==
    /\ call = <<>>
    /\ call' = <<Frame("links", rules, NilResp, NilElement, <<>>, <<rules.URL>>, <<>>)>>
    /\ UNCHANGED <<c, st>>

\* The innermost loop goes on to its next turn, and the loops in more are
\* entered from it.
Turn(more) ==
    /\ Len(call) + Len(more) <= MaxStack
    /\ call' = SubSeq(call, 1, Len(call) - 1)
                \o <<[Innermost EXCEPT !.i = @ + 1]>> \o more

\* Extract once c.Do has returned d for rules: with selectors and a
\* decoder for the page, Parse decodes it and enters findSelectors on its
\* root.
Decoded(rules, d) ==
    LET format == FormatOf(ContentType(d.resp))
    IN  IF d.err = NilErr /\ Len(rules.Selectors) > 0 /\ format # ""
        THEN <<Frame("list", rules, d.resp, ParserFunc(format, d.resp),
                     rules.Selectors, <<>>, <<>>)>>
        ELSE <<>>

\* The clone of the derived Rules for urls[i], which holds what they hold,
\* and what c.Do returns to its Extract: with no RobotsTxt and no Delay,
\* what the transport returns.
Fetched == [Innermost.rules EXCEPT !.URL = Innermost.urls[Innermost.i]]
Fetching == ClientDo(c, Fetched, [st EXCEPT !.depth = Extracting])

\* followSelector: one Extract for urls[i].
StepFetch ==
    /\ call # <<>>
    /\ Innermost.kind = "links"
    /\ Innermost.i <= Len(Innermost.urls)
    /\ st' = Fetching.st
    /\ Turn(Decoded(Fetched, Fetching))
    /\ UNCHANGED c

\* The loops findSelector enters for selector on parent.
Entered(f, selector) ==
    LET all == FindAll(f.parent, selector.Expr, selector.Type)
        one == Find(f.parent, selector.Expr, selector.Type)
        err == IF selector.All THEN all.err ELSE one.err
        kids == IF selector.All THEN all.children
                ELSE IF one.child = NilElement THEN <<>> ELSE <<one.child>>
        values == [k \in DOMAIN kids |-> ElementValue(kids[k])]
        conv == followURLs(f.resp, values, 1, <<>>, NilErr)
    IN  IF err # NilErr \/ (~selector.All /\ kids = <<>>) THEN <<>>
        ELSE IF selector.Follow
        THEN IF conv.errs # NilErr THEN <<>>
             ELSE <<Frame("links", SelectorRules(selector, f.rules), NilResp,
                          NilElement, <<>>, conv.urls, <<>>)>>
        ELSE IF Len(selector.Selectors) = 0 THEN <<>>
        ELSE IF selector.All
        THEN <<Frame("each", f.rules, f.resp, NilElement, selector.Selectors,
                     <<>>, kids)>>
        ELSE <<Frame("list", f.rules, f.resp, kids[1], selector.Selectors,
                     <<>>, <<>>)>>

\* findSelectors: findSelector for sels[i].
StepSelector ==
    /\ call # <<>>
    /\ Innermost.kind = "list"
    /\ Innermost.i <= Len(Innermost.sels)
    /\ Turn(Entered(Innermost, Innermost.sels[Innermost.i]))
    /\ UNCHANGED <<c, st>>

\* findAllSelector: findSelectors with the nested selectors on kids[i].
StepChild ==
    /\ call # <<>>
    /\ Innermost.kind = "each"
    /\ Innermost.i <= Len(Innermost.kids)
    /\ LET f == Innermost
       IN  Turn(<<Frame("list", f.rules, f.resp, f.kids[f.i], f.sels, <<>>, <<>>)>>)
    /\ UNCHANGED <<c, st>>

\* The innermost loop is over and returns to the one it was entered from.
StepReturn ==
    /\ Len(call) > 1
    /\ Innermost.i > Turns(Innermost)
    /\ call' = SubSeq(call, 1, Len(call) - 1)
    /\ UNCHANGED <<c, st>>

NextWalk ==
    \/ \E rules \in WalkRules : StepExtract(rules)
    \/ StepFetch
    \/ StepSelector
    \/ StepChild
    \/ StepReturn

\* The goroutine that runs Extract is not blocked between two steps: it
\* takes its next step.
SpecWalk == InitWalk /\ [][NextWalk]_vars /\ WF_vars(NextWalk)

\* The Extract of the callers has returned.
Walked == Len(call) = 1 /\ call[1].i > 1

\* The Rules the callers passed.
Walking == call[1].rules

\* An Extract has been called.
Called == call # <<>>

RECURSIVE FollowDepth(_)
RECURSIVE TreeDepth(_)
Highest(S) == IF S = {} THEN 0 ELSE CHOOSE n \in S : \A other \in S : other <= n

\* The most Follow selectors on a path of the selector tree, and the
\* depth of the tree.
FollowDepth(selectors) ==
    Highest({(IF selectors[k].Follow THEN 1 ELSE 0) + FollowDepth(selectors[k].Selectors) :
                k \in DOMAIN selectors})
TreeDepth(selectors) ==
    Highest({1 + TreeDepth(selectors[k].Selectors) : k \in DOMAIN selectors})

\* The requests sent so far, and those the Extract operator sends for the
\* same Rules.
IsRequest(e) == e.op = "ClientDo"
Requests == SelectSeq(st.trace, IsRequest)
RequestsOfExtract == SelectSeq(Extract(c, Walking, NewState).st.trace, IsRequest)

\* 1 + MaxMatches + ... + MaxMatches^n.
RECURSIVE Fanned(_)
Fanned(n) == IF n = 0 THEN 1 ELSE 1 + MaxMatches * Fanned(n - 1)

WalkBounded ==
    Called =>
    /\ Len(call) < MaxStack
    /\ Extracting - 1 <= FollowDepth(Walking.Selectors)
    /\ FollowDepth(Walking.Selectors) <= TreeDepth(Walking.Selectors)
    /\ \A k \in DOMAIN Requests :
          Requests[k].depth - 1 <= FollowDepth(Walking.Selectors)
    /\ \A k \in DOMAIN call :
          call[k].kind = "links" /\ k > 1 =>
              TreeDepth(call[k].rules.Selectors) < TreeDepth(call[k - 1].rules.Selectors)
    /\ Len(Requests) <= Fanned(FollowDepth(Walking.Selectors))
    /\ Walked => Requests = RequestsOfExtract

(***************************************************************************)
(* C36: every extraction terminates, also when the pages link to each      *)
(* other in a cycle: the Rules of a followed page hold only the nested     *)
(* selectors of the followed selector, so the depth of the nested fetches  *)
(* never exceeds the depth of the selector tree, and the number of fetches *)
(* is bounded.                                                             *)
(***************************************************************************)
C36_Terminates == []WalkBounded /\ <>Walked

\* A page followed from a followed page, which links to itself, has been
\* fetched and the extraction is over.
C36_Witness ==
    /\ Walked
    /\ \E k \in DOMAIN Requests : Requests[k].depth = 3
    /\ \E j, k \in DOMAIN Requests :
            j < k /\ Requests[j].arg = Requests[k].arg /\ Requests[j].depth < Requests[k].depth

(***************************************************************************)
(* The pacing tokens held during a call.  A Wait that returned holds the   *)
(* token of its URL until the Done of the same Do is called.               *)
(***************************************************************************)
\* The Done that the Do of the Wait at j calls.
Releases(i, j) ==
    /\ Trace[i].op = "Done"
    /\ Trace[i].arg = Trace[j].arg
    /\ Trace[i].depth = Trace[j].depth
    /\ Trace[i].gate = Trace[j].gate

\* The Waits whose token is held when the invocation at k is made.
Held(k) ==
    {j \in 1..(k - 1) :
        /\ Trace[j].op = "Wait"
        /\ ~Faulty(c, "Wait")
        /\ \A i \in (j + 1)..(k - 1) : ~Releases(i, j)}

\* The Waits of the followed requests of the call.
FollowedWaits == {k \in DOMAIN Trace : Trace[k].op = "Wait" /\ Trace[k].depth > 1}

(***************************************************************************)
(* C37: the pacing token taken by Delay.Wait in Do is released by          *)
(* Delay.Done before Parser.Parse of the same Extract begins: no token is  *)
(* held when Parse is called, when a followed request calls Wait, or when  *)
(* the call returns, also for a follow to the URL of its ancestor.         *)
(***************************************************************************)
C37_TokenReleasedBeforeParse ==
    call # Idle =>
        /\ \A k \in DOMAIN Trace :
              Trace[k].op \in {"Parse", "Wait", "Extract", "Find", "FindAll"} =>
                  Held(k) = {}
        /\ Held(Len(Trace) + 1) = {}
        /\ \A k \in DOMAIN Trace :
              (Trace[k].op = "Parse" /\ c.delay # "none" /\ call.rules.Delay > 0) =>
                  \E j, i \in 1..(k - 1) :
                      /\ j < i
                      /\ Trace[j].op = "Wait"
                      /\ Trace[j].depth = Trace[k].depth
                      /\ Trace[j].arg = Trace[k].arg
                      /\ Releases(i, j)

\* A page that was paced is parsed and followed to its own URL, and the
\* followed request has waited in its turn.
C37_Witness ==
    /\ ExtractCalled
    /\ \E j \in DOMAIN Trace, k \in FollowedWaits :
            /\ j < k
            /\ Trace[j].op = "Wait"
            /\ Trace[j].depth = 1
            /\ Trace[j].arg = Trace[k].arg
    /\ call.out.err = NilErr

(***************************************************************************)
(* Parsers called by several goroutines.  st holds the registry and the    *)
(* goroutine that holds parsers.rw, 0 when it is free; every method takes  *)
(* it with Lock.  call maps each goroutine to its place in the method it   *)
(* runs:                                                                   *)
(*   lock     at parsers.rw.Lock()                                         *)
(*   select   in the range over funcs of Parse                             *)
(*   apply    in the range of Match, the clear of Clear, the store of Set  *)
(*   decode   at parserFunc(resp), after the range of Parse                *)
(*   extract  in findSelectors, from where a followed page is parsed by a  *)
(*            nested Parse of the same goroutine (depth counts them)       *)
(***************************************************************************)
MaxWorkers == 2
MaxNest == 2

Workers == 1..MaxWorkers

Resting == [op |-> "", pc |-> "idle", arg |-> "", depth |-> 0, found |-> ""]

LockOps == {"Match", "Parse", "Set", "Clear"}

\* The argument of a call: a content type, or the pattern Set registers.
LockArgs(op) ==
    CASE op = "Set" -> {TextRegexp, ".*"}
      [] op = "Clear" -> {""}
      [] OTHER -> {"text/html", "text/plain", "apk"}

\* The Unlock of Parse is deferred to its return.
ParseSelectHeld(funcs, contentType, holder) ==
    [found |-> {IF expr = "" THEN "" ELSE funcs[expr] : expr \in Stops(funcs, contentType)},
     holder |-> holder]

\* The range over funcs of Parse, from Lock to Unlock: the decoder of a
\* pattern that matches, "" when there is none, and the holder of the lock
\* after it.
ParseSelect(funcs, contentType, holder) ==
    [found |-> {IF expr = "" THEN "" ELSE funcs[expr] : expr \in Stops(funcs, contentType)},
     holder |-> 0]

InitLock ==
    /\ c = EngineColibri
    /\ st = [funcs |-> ParsersNew, holder |-> 0]
    /\ call = [g \in Workers |-> Resting]

\* Goroutine g calls a method of the registry.  Set returns before the
\* lock for an empty pattern or a nil function; the calls of the model
\* pass neither.
LockCall(g, op, arg) ==
    /\ call[g].pc = "idle"
    /\ call' = [call EXCEPT ![g] = [Resting EXCEPT !.op = op, !.arg = arg, !.pc = "lock"]]
    /\ UNCHANGED <<c, st>>

\* parsers.rw.Lock() returns.
LockAcquire(g) ==
    /\ call[g].pc = "lock"
    /\ st.holder = 0
    /\ st' = [st EXCEPT !.holder = g]
    /\ call' = [call EXCEPT ![g].pc = IF call[g].op = "Parse" THEN "select" ELSE "apply"]
    /\ UNCHANGED c

\* Parse: the range over funcs and the Unlock after it.
LockSelect(g) ==
    /\ call[g].pc = "select"
    /\ LET s == ParseSelect(st.funcs, call[g].arg, st.holder)
       IN  /\ st' = [st EXCEPT !.holder = s.holder]
           /\ \E found \in s.found :
                 call' = [call EXCEPT ![g].found = found,
                                      ![g].pc = IF found = "" THEN "return" ELSE "decode"]
    /\ UNCHANGED c

\* Match, Clear and Set: the access to funcs and the Unlock.
LockApply(g) ==
    /\ call[g].pc = "apply"
    /\ st' = [st EXCEPT
                !.holder = 0,
                !.funcs = CASE call[g].op = "Clear" -> ParsersClear(@)
                            [] call[g].op = "Set" -> ParsersSet(@, call[g].arg, "text").funcs
                            [] OTHER -> @]
    /\ call' = [call EXCEPT
                  ![g].found = IF call[g].op = "Match" /\ ParsersMatch(st.funcs, call[g].arg)
                               THEN "match" ELSE "",
                  ![g].pc = "return"]
    /\ UNCHANGED c

\* Parse: parserFunc(resp) returns and findSelectors starts.
LockDecode(g) ==
    /\ call[g].pc = "decode"
    /\ call' = [call EXCEPT ![g].pc = "extract"]
    /\ UNCHANGED <<c, st>>

\* findSelectors follows a link: the followed page is parsed by a nested
\* Parse.
LockFollow(g, contentType) ==
    /\ call[g].pc = "extract"
    /\ call[g].depth < MaxNest
    /\ call' = [call EXCEPT ![g].depth = @ + 1, ![g].arg = contentType,
                            ![g].found = "", ![g].pc = "lock"]
    /\ UNCHANGED <<c, st>>

\* findSelectors returns.
LockExtracted(g) ==
    /\ call[g].pc = "extract"
    /\ call' = [call EXCEPT ![g].pc = "return"]
    /\ UNCHANGED <<c, st>>

\* The method returns: to the findSelectors that followed the link, or to
\* the caller of the goroutine.
LockReturn(g) ==
    /\ call[g].pc = "return"
    /\ call' = [call EXCEPT ![g] = IF call[g].depth > 0
                                   THEN [@ EXCEPT !.depth = @ - 1, !.pc = "extract"]
                                   ELSE Resting]
    /\ UNCHANGED <<c, st>>

NextLock ==
    \/ \E g \in Workers, op \in LockOps : \E arg \in LockArgs(op) : LockCall(g, op, arg)
    \/ \E g \in Workers : LockAcquire(g)
    \/ \E g \in Workers : LockSelect(g)
    \/ \E g \in Workers : LockApply(g)
    \/ \E g \in Workers : LockDecode(g)
    \/ \E g \in Workers, contentType \in LockArgs("Parse") : LockFollow(g, contentType)
    \/ \E g \in Workers : LockExtracted(g)
    \/ \E g \in Workers : LockReturn(g)

SpecLock == InitLock /\ [][NextLock]_vars

\* The goroutines between Lock and Unlock.
Inside == {g \in Workers : call[g].pc \in {"select", "apply"}}

(***************************************************************************)
(* C38: Parse holds the lock of the registry only while it selects the     *)
(* decoder: no goroutine that decodes or extracts holds it, a nested Parse *)
(* never waits on the lock of its own goroutine, the holder of the lock is *)
(* always in a range, clear or store that it ends without waiting, and no  *)
(* two goroutines are between Lock and Unlock together.                    *)
(***************************************************************************)
C38_LockOnlyWhileSelecting ==
    /\ \A g \in Workers :
          /\ st.holder = g <=> g \in Inside
          /\ call[g].pc \in {"decode", "extract", "return", "idle"} => st.holder # g
          /\ call[g].pc = "lock" => st.holder # g
    /\ st.holder # 0 => st.holder \in Inside
    /\ Cardinality(Inside) <= 1
    /\ \A g \in Workers :
          call[g].pc = "lock" =>
              \/ st.holder = 0
              \/ call[st.holder].pc \in {"select", "apply"}

\* A goroutine is in a nested Parse, past its range, while another clears
\* the registry, and the first extraction is still in progress.
C38_Witness ==
    \E g, other \in Workers :
        /\ call[g].op = "Parse"
        /\ call[g].depth > 0
        /\ call[g].pc = "decode"
        /\ call[other].op = "Clear"
        /\ call[other].pc = "apply"

(***************************************************************************)
(* webextractor.Client: the transport of package webextractor.  An         *)
(* http.Client is [proxy, jar, timeout]: the proxy of its transport ("env" *)
(* for http.ProxyFromEnvironment, else the string of the proxy URL),       *)
(* whether the cookie jar is attached, and its timeout in seconds.  st     *)
(* holds client.pool, the http.Clients put back and not collected since.   *)
(***************************************************************************)
DefaultTimeout == 5
MaxPooled == 2

\* defaultTransport() in a new http.Client.
NewHTTPClient == [proxy |-> "env", jar |-> FALSE, timeout |-> 0]

\* Client.getClient once client.pool.Get has returned v, NilElement for
\* a nil: the transport of a pooled client is kept, and its proxy is set
\* only for a proxy URL that is not nil.
getClient(v, proxyURL) ==
    LET httpClient == IF v = NilElement THEN NewHTTPClient ELSE v
    IN  IF proxyURL # NilURL
        THEN [httpClient EXCEPT !.proxy = URLString(proxyURL)]
        ELSE httpClient

\* http.NewRequest(rules.Method, ...): a method that is no token is
\* refused.
httpRequest(rules) == IF rules.Method = "B D" THEN Error("invalid method") ELSE NilErr

\* Client.Do once client.pool.Get has returned v: the http.Client put
\* back, the error, and the settings the request was sent with, NilElement
\* when none was sent.
Client_Do(v, rules) ==
    LET got == getClient(v, rules.Proxy)
        httpClient == [got EXCEPT
                         !.jar = rules.UseCookies,
                         !.timeout = IF rules.Timeout > 0 THEN rules.Timeout
                                     ELSE DefaultTimeout]
        err == httpRequest(rules)
    IN  [put |-> httpClient, err |-> err,
         sent |-> IF err # NilErr THEN NilElement ELSE httpClient]

Proxies == {NilURL, URL("http", "one.test", ""), URL("http", "two.test", "")}

ClientRules ==
    {[Rules(URL("https", "h.test", "/p"), NilHeader, FALSE, 0, <<>>, <<>>) EXCEPT
         !.Method = method, !.Proxy = proxy, !.UseCookies = cookies, !.Timeout = timeout] :
        method \in {"GET", "B D"}, proxy \in Proxies, cookies \in BOOLEAN,
        timeout \in {0, 3}}

InitClient ==
    /\ c = EngineColibri
    /\ st = [pool |-> {}]
    /\ call = Idle

\* A caller runs client.Do(c, rules); client.pool.Get returns v, a client
\* of the pool or nil, and the deferred Put returns the client to the pool.
CallClientDo(rules, v) ==
    /\ call = Idle
    /\ v \in st.pool \cup {NilElement}
    /\ LET r == Client_Do(v, rules)
       IN  /\ call' = [op |-> "ClientDo", rules |-> rules, before |-> st, out |-> r]
           /\ Cardinality((st.pool \ {v}) \cup {r.put}) <= MaxPooled
           /\ st' = [st EXCEPT !.pool = (@ \ {v}) \cup {r.put}]
    /\ UNCHANGED c

\* The garbage collector empties the pool.
PoolCollected ==
    /\ call = Idle
    /\ st.pool # {}
    /\ st' = [st EXCEPT !.pool = {}]
    /\ UNCHANGED <<c, call>>

NextClient ==
    \/ \E rules \in ClientRules, v \in st.pool \cup {NilElement} : CallClientDo(rules, v)
    \/ PoolCollected
    \/ Return

SpecClient == InitClient /\ [][NextClient]_vars

\* A request has been sent.
Sent == call # Idle /\ call.op = "ClientDo" /\ call.out.sent # NilElement

(***************************************************************************)
(* C39, as stated: each request of a sequence of Client.Do calls uses only *)
(* the settings of its own Rules: the cookie jar is attached iff           *)
(* UseCookies is true, the timeout is Timeout, DefaultTimeout when it is   *)
(* not positive, and a request whose Proxy is nil is not sent through the  *)
(* proxy of the Rules of an earlier request.                               *)
(***************************************************************************)
C39_OwnSettingsOnly ==
    Sent =>
        /\ call.out.sent.jar = call.rules.UseCookies
        /\ call.out.sent.timeout =
              (IF call.rules.Timeout > 0 THEN call.rules.Timeout ELSE DefaultTimeout)
        /\ call.rules.Proxy # NilURL =>
              call.out.sent.proxy = URLString(call.rules.Proxy)
        /\ call.rules.Proxy = NilURL => call.out.sent.proxy = "env"

=============================================================================
